---- MODULE Spec2Model ----
(***************************************************************************)
(* VRConnect: Socket.IO v4 ingestion bridge.                               *)
(*                                                                         *)
(* The model covers the listener (SocketIOServer::start), one task per     *)
(* connection (SocketIOServer::handle_connection / process_data), the      *)
(* unbounded output channel, the consumer loop (VitalProcessor::run), the  *)
(* shared debug-file lock and the process-wide shutdown.                   *)
(*                                                                         *)
(* A task is modelled between its suspension points: one action runs the   *)
(* code from one .await to the next.                                       *)
(***************************************************************************)
EXTENDS Integers, Sequences, FiniteSets, TLC

\* ---------------------------------------------------------------- bounds
\* Connections the listener accepts during one run.
NumConns == 2
\* Inbound frames the clients send during one run, over all connections.
MaxFrames == 4
\* The same, when several clients talk to the server.
MaxSharedFrames == 3
\* The same, when the clients send nothing but placeholders and payloads.
MaxStreamFrames == 6
\* The same, in the runs checked for progress.
MaxFairFrames == 4
\* Frames a client may have sent that the session has not read yet.
MaxUnread == 1
\* Failed accepts of the listener.
MaxAcceptErrors == 1
\* Rooms of a document, tracks of a room, records of a track.
MaxRooms == 2
MaxTracks == 2
MaxRecords == 2
\* Elements of a waveform array.
MaxSamples == 3
\* Bytes of a text that is compressed, of a buffer that is not.
MaxTextLen == 2
MaxPlainLen == 3
\* pairs or tokens in one array of a defective text
MaxPairs == 2

Conns == 1..NumConns

\* Task identities for the debug-file lock: sessions are 1..NumConns.
ConsumerTask == 0
NoTask == -1

\* -------------------------------------------------------------- payloads
\* A binary payload is described by its first (at most two) bytes, by
\* whether the zlib stream it carries inflates, and by what the text it
\* decodes to looks like to the later stages.
Content(u, j, v, r) == [utf8 |-> u, json |-> j, vrcode |-> v, rooms |-> r]

GoodContent == Content(TRUE, TRUE, TRUE, TRUE)

Payload(h, s, c) == [head |-> h, stream |-> s, content |-> c]

\* [0x04, 0x78, ...zlib] of a well-formed document
P_sio_ok == Payload(<<4, 120>>, "good", GoodContent)
\* bare zlib stream (0x78 0x9C) of a well-formed document
P_zlib_ok == Payload(<<120, 156>>, "good", GoodContent)
\* uncompressed document, begins with '{' '"'
P_plain_ok == Payload(<<123, 34>>, "none", GoodContent)
\* recognised header, body does not inflate
P_sio_corrupt == Payload(<<4, 120>>, "corrupt", GoodContent)
\* plain bytes that are not UTF-8
P_bad_utf8 == Payload(<<255, 254>>, "none", Content(FALSE, FALSE, FALSE, FALSE))
\* plain text that is not JSON even after repair
P_bad_json == Payload(<<123, 123>>, "none", Content(TRUE, FALSE, FALSE, FALSE))
\* zlib stream (0x78 0xDA) of a JSON object without "vrcode"
P_no_vrcode == Payload(<<120, 218>>, "good", Content(TRUE, TRUE, FALSE, TRUE))
\* zlib stream (0x78 0x01) of a JSON object without "rooms"
P_no_rooms == Payload(<<120, 1>>, "good", Content(TRUE, TRUE, TRUE, FALSE))
\* zero-length binary frame
P_empty == Payload(<<>>, "none", Content(TRUE, FALSE, FALSE, FALSE))

Payloads ==
    {P_sio_ok, P_plain_ok, P_sio_corrupt, P_bad_utf8, P_bad_json,
     P_no_vrcode}

\* ---------------------------------------------------------------- frames
\* Text frames are sequences of characters.
T_ping == <<"2">>
T_probe == <<"2", "p">>
T_connect == <<"4", "0">>
T_event == <<"4", "2", "[", "]">>
T_placeholder == <<"4", "5", "1", "-", "1">>
T_nodash == <<"4", "5", "1">>
T_other == <<"3">>

Texts == {T_ping, T_connect, T_event, T_placeholder, T_nodash}

TextMsg(t) == [type |-> "Text", text |-> t, data |-> P_empty]
BinaryMsg(d) == [type |-> "Binary", text |-> <<>>, data |-> d]
CtlMsg(k) == [type |-> k, text |-> <<>>, data |-> P_empty]
NoMsg == CtlMsg("None")

\* What read.next() can yield as Ok(Message).  Message::Frame is never
\* produced by a read.
Frames ==
    {TextMsg(t) : t \in Texts} \cup {BinaryMsg(d) : d \in Payloads}
        \cup {CtlMsg("Close"), CtlMsg("Ping"), CtlMsg("Pong")}

\* The frames of the known sender: placeholder and payload (well-formed or
\* corrupt), the Engine.IO ping, and the close.
SenderFrames ==
    {TextMsg(T_placeholder), TextMsg(T_ping), BinaryMsg(P_sio_ok),
     BinaryMsg(P_sio_corrupt), CtlMsg("Close")}

\* A client that does nothing but stream well-formed data.
StreamFrames == {TextMsg(T_placeholder), BinaryMsg(P_sio_ok)}

\* Variant of ConnectionResponse with the two timing values exchanged.
ConnectionResponse_swapped(sid) ==
    [type |-> "Text", tag |-> "0", sid |-> sid, upgrades |-> <<>>,
     pingInterval |-> 5000, pingTimeout |-> 25000]

\* Outbound frames.
ConnectionResponse(sid) ==
    [type |-> "Text", tag |-> "0", sid |-> sid, upgrades |-> <<>>,
     pingInterval |-> 25000, pingTimeout |-> 5000]
PongText == [type |-> "Text", tag |-> "3", sid |-> 0, upgrades |-> <<>>,
             pingInterval |-> 0, pingTimeout |-> 0]
PongCtl == [type |-> "Pong", tag |-> "", sid |-> 0, upgrades |-> <<>>,
            pingInterval |-> 0, pingTimeout |-> 0]

\* Option<String> of the pending placeholder.
None == <<"None">>
Some(s) == <<"Some", s>>

\* str::starts_with
starts_with(text, prefix) ==
    /\ Len(text) >= Len(prefix)
    /\ SubSeq(text, 1, Len(prefix)) = prefix

\* &text[n..]
slice_from(text, n) == SubSeq(text, n + 1, Len(text))


\* ------------------------------------------------------- decode pipeline
Ok(v) == [ok |-> TRUE, err |-> "", val |-> v]
Err(e) == [ok |-> FALSE, err |-> e, val |-> Content(FALSE, FALSE, FALSE, FALSE)]

\* VitalDataDecompressor::decompress_zlib: the whole stream inflates or the
\* call returns VitalError::Decompression.
decompress_zlib(data) ==
    IF data.stream = "good" THEN Ok(data.content) ELSE Err("Decompression")

\* VitalDataDecompressor::decompress
decompress(data) ==
    IF Len(data.head) = 0 THEN Ok(data.content)
    ELSE IF Len(data.head) >= 2 /\ data.head[1] = 4 /\ data.head[2] = 120
         THEN decompress_zlib(data)
    ELSE IF data.head[1] = 120 /\ Len(data.head) >= 2
            /\ (data.head[2] = 156 \/ data.head[2] = 218 \/ data.head[2] = 1)
         THEN decompress_zlib(data)
    ELSE Ok(data.content)

\* String::from_utf8(decompressed).map_err(VitalError::Processing)
from_utf8(content) ==
    IF content.utf8 THEN Ok(content) ELSE Err("Processing")

\* VitalDataCleaner::clean always returns Ok; `json` of the content says
\* whether the cleaned text is valid JSON.
clean(content) == Ok(content)

\* serde_json::from_str::<VitalData>: vrcode and rooms have no default.
parse_vital_data(content) ==
    IF content.json /\ content.vrcode /\ content.rooms
    THEN Ok(content) ELSE Err("JsonParse")

\* Where process_data stands: either at one of its debug writes (an .await
\* on the lock) or returned.
Await(p) == [kind |-> "await", at |-> p, err |-> ""]
Returned(r) ==
    [kind |-> IF r.ok THEN "ok" ELSE "err", at |-> "", err |-> r.err]

\* process_data, step 4 and 5 (parse, transform), then the last debug write.
process_data_parse(content, dbg) ==
    LET r == parse_vital_data(content) IN
    IF ~r.ok THEN Returned(r)
    ELSE IF dbg THEN Await("log_complete") ELSE Returned(r)

\* process_data, step 3 (clean), debug write, then step 4.
process_data_clean(content, dbg) ==
    LET r == clean(content) IN
    IF ~r.ok THEN Returned(r)
    ELSE IF dbg THEN Await("log_cleaned") ELSE process_data_parse(r.val, dbg)

\* process_data, step 2 (UTF-8), debug write, then step 3.
process_data_utf8(content, dbg) ==
    LET r == from_utf8(content) IN
    IF ~r.ok THEN Returned(r)
    ELSE IF dbg THEN Await("log_raw_json") ELSE process_data_clean(r.val, dbg)

\* Variant of process_data that takes the debug-file lock after step 1 even
\* when debug logging is off.
process_data_always_locks(data, dbg) ==
    LET r == decompress(data) IN
    IF ~r.ok THEN Returned(r)
    ELSE Await("log_decompressed")

\* process_data from its entry: step 1 (decompress), debug write, step 2.
process_data(data, dbg) ==
    LET r == decompress(data) IN
    IF ~r.ok THEN Returned(r)
    ELSE IF dbg THEN Await("log_decompressed")
    ELSE process_data_utf8(r.val, dbg)

\* process_data resumed after the debug write it was suspended at.
process_data_resume(at, data, dbg) ==
    LET r == decompress(data) IN
    CASE at = "log_decompressed" -> process_data_utf8(r.val, dbg)
      [] at = "log_raw_json" -> process_data_clean(r.val, dbg)
      [] at = "log_cleaned" -> process_data_parse(r.val, dbg)
      [] at = "log_complete" -> Returned(Ok(r.val))

\* ------------------------------------------------------- session handler
\* What one run of the handler, from one suspension point to the next,
\* does to the session: where it suspends next, the placeholder, whether
\* tx.send(processed_data) ran, whether log::error! ran for the frame, and
\* why the task ended (if it did).
Effect(p, pend, emit, logerr) ==
    [pc |-> p, pending |-> pend, emit |-> emit, logerr |-> logerr]

\* Variant of on_process_data that forgets tx.send on success.
on_process_data_no_send(r, pend) ==
    CASE r.kind = "await" -> Effect(r.at, pend, FALSE, FALSE)
      [] r.kind = "ok" -> Effect("read", pend, FALSE, FALSE)
      [] r.kind = "err" -> Effect("read", pend, FALSE, TRUE)

\* Variant of on_process_data that lets a decode error end the task, as
\* `process_data(..).await?` would.
on_process_data_propagate(r, pend) ==
    CASE r.kind = "await" -> Effect(r.at, pend, FALSE, FALSE)
      [] r.kind = "ok" -> Effect("read", pend, TRUE, FALSE)
      [] r.kind = "err" -> Effect("closed", pend, FALSE, TRUE)

\* handle_connection, the match on process_data's result (or its .await).
on_process_data(r, pend) ==
    CASE r.kind = "await" -> Effect(r.at, pend, FALSE, FALSE)
      [] r.kind = "ok" -> Effect("read", pend, TRUE, FALSE)
      [] r.kind = "err" -> Effect("read", pend, FALSE, TRUE)

\* Variant of handle_binary that decodes every binary frame, placeholder
\* or not.
handle_binary_unchecked(data, pend, dbg) ==
    on_process_data(process_data(data, dbg), None)

\* Variant of handle_binary that leaves the placeholder pending behind the
\* frame it announced.
handle_binary_keeps_placeholder(data, pend, dbg) ==
    IF pend # None
    THEN on_process_data(process_data(data, dbg), pend)
    ELSE Effect("read", None, FALSE, FALSE)

\* Variant of handle_binary that keeps the placeholder for another frame
\* when the decode fails.
handle_binary_retries(data, pend, dbg) ==
    IF pend # None
    THEN LET eff == on_process_data(process_data(data, dbg), None)
         IN  IF eff.logerr THEN [eff EXCEPT !.pending = pend] ELSE eff
    ELSE Effect("read", None, FALSE, FALSE)

\* handle_connection, Ok(Message::Binary(data)) after its debug write.
handle_binary(data, pend, dbg) ==
    IF pend # None
    THEN on_process_data(process_data(data, dbg), None)
    ELSE Effect("read", None, FALSE, FALSE)

\* Variant of handle_text that answers the namespace connect as it answers
\* a ping.
handle_text_pong_on_connect(text, pend) ==
    IF starts_with(text, <<"2">>) \/ starts_with(text, <<"4", "0">>)
    THEN Effect("send_pong", pend, FALSE, FALSE)
    ELSE IF starts_with(text, <<"4", "5", "1", "-">>)
    THEN Effect("read", Some(slice_from(text, 4)), FALSE, FALSE)
    ELSE Effect("read", pend, FALSE, FALSE)

\* Variant of handle_text in which an event frame forgets the placeholder.
handle_text_event_resets(text, pend) ==
    IF starts_with(text, <<"2">>)
    THEN Effect("send_pong", pend, FALSE, FALSE)
    ELSE IF starts_with(text, <<"4", "2">>)
    THEN Effect("read", None, FALSE, FALSE)
    ELSE IF starts_with(text, <<"4", "5", "1", "-">>)
    THEN Effect("read", Some(slice_from(text, 4)), FALSE, FALSE)
    ELSE Effect("read", pend, FALSE, FALSE)

\* handle_connection, Ok(Message::Text(text)) after its debug write.
handle_text(text, pend) ==
    IF starts_with(text, <<"2">>)
    THEN Effect("send_pong", pend, FALSE, FALSE)
    ELSE IF starts_with(text, <<"4", "0">>)
    THEN Effect("read", pend, FALSE, FALSE)
    ELSE IF starts_with(text, <<"4", "2">>)
    THEN Effect("read", pend, FALSE, FALSE)
    ELSE IF starts_with(text, <<"4", "5", "1", "-">>)
    THEN Effect("read", Some(slice_from(text, 4)), FALSE, FALSE)
    ELSE Effect("read", pend, FALSE, FALSE)

\* Variant of on_message that logs a Close frame and reads on.
on_message_reads_past_close(m, pend, dbg) ==
    CASE m.type = "Text" ->
            IF dbg THEN Effect("log_text", pend, FALSE, FALSE)
            ELSE handle_text(m.text, pend)
      [] m.type = "Binary" ->
            IF dbg THEN Effect("log_binary", pend, FALSE, FALSE)
            ELSE handle_binary(m.data, pend, dbg)
      [] m.type = "Close" -> Effect("read", pend, FALSE, FALSE)
      [] m.type = "Ping" -> Effect("send_ctl_pong", pend, FALSE, FALSE)
      [] m.type = "Pong" -> Effect("read", pend, FALSE, FALSE)

\* handle_connection, the match on the message read.next() yielded.
on_message(m, pend, dbg) ==
    CASE m.type = "Text" ->
            IF dbg THEN Effect("log_text", pend, FALSE, FALSE)
            ELSE handle_text(m.text, pend)
      [] m.type = "Binary" ->
            IF dbg THEN Effect("log_binary", pend, FALSE, FALSE)
            ELSE handle_binary(m.data, pend, dbg)
      [] m.type = "Close" -> Effect("closed", pend, FALSE, FALSE)
      [] m.type = "Ping" -> Effect("send_ctl_pong", pend, FALSE, FALSE)
      [] m.type = "Pong" -> Effect("read", pend, FALSE, FALSE)

\* The code that follows a debug write, up to the next suspension point.
after_debug_write(at, m, pend, dbg) ==
    CASE at = "log_conn" -> Effect("read", pend, FALSE, FALSE)
      [] at = "log_text" -> handle_text(m.text, pend)
      [] at = "log_binary" -> handle_binary(m.data, pend, dbg)
      [] OTHER -> on_process_data(process_data_resume(at, m.data, dbg), pend)

\* Positions at which a session waits for, or holds, the debug-file lock.
LogPcs ==
    {"log_conn", "log_text", "log_binary", "log_decompressed",
     "log_raw_json", "log_cleaned", "log_complete"}

\* Positions inside the handling of one binary frame.
BinaryPcs ==
    {"log_binary", "log_decompressed", "log_raw_json", "log_cleaned",
     "log_complete"}

\* ProtocolSession states of the specification.
SessionState(p) ==
    CASE p = "unaccepted" -> "None"
      [] p \in {"ws_handshake", "send_conn_response"} -> "Handshaking"
      [] p = "closed" -> "Closed"
      [] OTHER -> "Open"

\* ------------------------------------------------------------ JSON values
\* Text is a sequence of one-character strings.  A number is held in
\* thousandths (1.5 is 1500): the inputs carry at most three decimals.
Milli == 10 * 10 * 10

\* serde_json::Value.  items: the elements of an Array, or the members
\* [key, value] of an Object, in document order.
JNull == [kind |-> "Null", num |-> 0, str |-> <<>>, items |-> <<>>]
JBool(b) ==
    [kind |-> "Bool", num |-> IF b THEN 1 ELSE 0, str |-> <<>>, items |-> <<>>]
JNumber(m) == [kind |-> "Number", num |-> m, str |-> <<>>, items |-> <<>>]
JString(t) == [kind |-> "String", num |-> 0, str |-> t, items |-> <<>>]
JArray(vs) == [kind |-> "Array", num |-> 0, str |-> <<>>, items |-> vs]
JObject(ms) == [kind |-> "Object", num |-> 0, str |-> <<>>, items |-> ms]
Member(k, v) == [key |-> k, value |-> v]

\* Value::as_f64: Some for a number, None for anything else.
as_f64(v) == IF v.kind = "Number" THEN Some(v.num) ELSE None

\* Iterator::flat_map(..).collect() over a sequence of sequences.
RECURSIVE flat_map(_)
flat_map(qs) == IF qs = <<>> THEN <<>> ELSE Head(qs) \o flat_map(Tail(qs))

Digit(d) == SubSeq(<<"0", "1", "2", "3", "4", "5", "6", "7", "8", "9">>, d + 1, d + 1)

\* format!("{}", n) of an unsigned integer.
RECURSIVE uint_to_string(_)
uint_to_string(n) ==
    IF n < 10 THEN Digit(n) ELSE uint_to_string(n \div 10) \o Digit(n % 10)

\* format!("{:.3}", x) of the number held as m thousandths.
fixed3(m) ==
    LET a == IF m < 0 THEN -m ELSE m IN
    (IF m < 0 THEN <<"-">> ELSE <<>>)
        \o uint_to_string(a \div Milli) \o <<".">>
        \o Digit((a \div 100) % 10) \o Digit((a \div 10) % 10) \o Digit(a % 10)

\* Display of a number the way serde_json prints it: no more decimals than
\* it has.
RECURSIVE frac_to_string(_, _)
frac_to_string(f, width) ==
    IF f = 0 \/ width = 0 THEN <<>>
    ELSE Digit(f \div 100) \o frac_to_string((f % 100) * 10, width - 1)

number_to_string(m) ==
    LET a == IF m < 0 THEN -m ELSE m IN
    (IF m < 0 THEN <<"-">> ELSE <<>>)
        \o uint_to_string(a \div Milli)
        \o (IF a % Milli = 0 THEN <<>>
            ELSE <<".">> \o frac_to_string(a % Milli, 3))

\* Value::to_string (compact JSON; the text inputs need no escapes).
RECURSIVE to_string(_)
to_string(v) ==
    CASE v.kind = "Null" -> <<"n", "u", "l", "l">>
      [] v.kind = "Bool" ->
            IF v.num = 1 THEN <<"t", "r", "u", "e">>
            ELSE <<"f", "a", "l", "s", "e">>
      [] v.kind = "Number" -> number_to_string(v.num)
      [] v.kind = "String" -> <<"\"">> \o v.str \o <<"\"">>
      [] v.kind = "Array" ->
            <<"[">>
            \o flat_map([i \in 1..Len(v.items) |->
                   (IF i > 1 THEN <<",">> ELSE <<>>) \o to_string(v.items[i])])
            \o <<"]">>
      [] v.kind = "Object" ->
            <<"{">>
            \o flat_map([i \in 1..Len(v.items) |->
                   (IF i > 1 THEN <<",">> ELSE <<>>)
                   \o <<"\"">> \o v.items[i].key \o <<"\"", ":">>
                   \o to_string(v.items[i].value)])
            \o <<"}">>

\* ------------------------------------------------------------- transform
\* VitalRecord, VitalTrack, VitalRoom, VitalData as transform reads them
\* (the timestamps, which transform only copies or takes from the clock,
\* are left out).
VitalRecord(value) == [value |-> value]
VitalTrack(name, dname, type, unit, recs) ==
    [name |-> name, display_name |-> dname, track_type |-> type,
     unit |-> unit, records |-> recs]
VitalRoom(roomname, trks) == [room_name |-> roomname, tracks |-> trks]
VitalData(vrcode, rooms) == [vr_code |-> vrcode, rooms |-> rooms]

\* Option::unwrap_or
unwrap_or(o, d) == IF o = None THEN d ELSE o[2]

\* What process_value and process_waveform return.
Processed(type, display, raw, stats, points) ==
    [track_type |-> type, display_value |-> display, raw_value |-> raw,
     waveform_stats |-> stats, waveform_points |-> points]

\* ---- f64 arithmetic of the waveform statistics ----
\* An f64 is a sign, a significand and a binary exponent: its value is
\* (-1)^neg * man * 2^exp. The significand is a natural number of at most
\* Precision bits, held as a little-endian sequence of limbs below Limb;
\* zero is the empty sequence. Exponent range and subnormals are left out:
\* the magnitudes handled here lie between 2^-70 and 2^70.
Precision == 53
Limb == 2^15

RECURSIVE bn_norm(_)
bn_norm(x) ==
    IF x # <<>> /\ x[Len(x)] = 0 THEN bn_norm(SubSeq(x, 1, Len(x) - 1)) ELSE x

bn(n) == bn_norm(<<n % Limb, (n \div Limb) % Limb, n \div (Limb * Limb)>>)

limb(x, i) == IF i <= Len(x) THEN x[i] ELSE 0

RECURSIVE bn_add_from(_, _, _, _)
bn_add_from(x, y, i, carry) ==
    IF i > Len(x) /\ i > Len(y)
    THEN (IF carry = 0 THEN <<>> ELSE <<carry>>)
    ELSE LET t == limb(x, i) + limb(y, i) + carry
         IN  <<t % Limb>> \o bn_add_from(x, y, i + 1, t \div Limb)

bn_add(x, y) == bn_add_from(x, y, 1, 0)

\* x - y for x >= y.
RECURSIVE bn_sub_from(_, _, _, _)
bn_sub_from(x, y, i, borrow) ==
    IF i > Len(x) THEN <<>>
    ELSE LET t == limb(x, i) - limb(y, i) - borrow
         IN  IF t < 0 THEN <<t + Limb>> \o bn_sub_from(x, y, i + 1, 1)
             ELSE <<t>> \o bn_sub_from(x, y, i + 1, 0)

bn_sub(x, y) == bn_norm(bn_sub_from(x, y, 1, 0))

bn_lt(x, y) ==
    IF Len(x) # Len(y) THEN Len(x) < Len(y)
    ELSE LET D == {i \in 1..Len(x) : x[i] # y[i]}
         IN  D # {} /\ LET k == CHOOSE k \in D : \A j \in D : j <= k
                       IN  x[k] < y[k]

\* x * k for k <= Limb.
RECURSIVE bn_mul_from(_, _, _, _)
bn_mul_from(x, k, i, carry) ==
    IF i > Len(x) THEN (IF carry = 0 THEN <<>> ELSE <<carry>>)
    ELSE LET t == x[i] * k + carry
         IN  <<t % Limb>> \o bn_mul_from(x, k, i + 1, t \div Limb)

bn_mul(x, k) == bn_norm(bn_mul_from(x, k, 1, 0))

\* Quotient and remainder of x by d for 0 < d <= Limb, from the top limb down.
RECURSIVE bn_div_from(_, _, _, _)
bn_div_from(x, d, i, r) ==
    IF i = 0 THEN [q |-> <<>>, r |-> r]
    ELSE LET t == r * Limb + x[i]
             rest == bn_div_from(x, d, i - 1, t % d)
         IN  [q |-> rest.q \o <<t \div d>>, r |-> rest.r]

bn_divmod(x, d) ==
    LET res == bn_div_from(x, d, Len(x), 0) IN [q |-> bn_norm(res.q), r |-> res.r]

bn_shl(x, s) ==
    bn_norm([i \in 1..(s \div 15) |-> 0] \o bn_mul(x, 2^(s % 15)))

bn_shr(x, s) ==
    IF s \div 15 >= Len(x) THEN <<>>
    ELSE bn_divmod(SubSeq(x, s \div 15 + 1, Len(x)), 2^(s % 15)).q

bn_bits(x) ==
    IF x = <<>> THEN 0
    ELSE 15 * (Len(x) - 1)
            + (CHOOSE b \in 1..15 : 2^(b - 1) <= x[Len(x)] /\ x[Len(x)] < 2^b)

F64(neg, man, exp) == [neg |-> neg, man |-> man, exp |-> exp]

\* Round to nearest, ties to even: the significand is cut to Precision bits;
\* sticky tells that the exact value lies above man * 2^exp.
round_f64(neg, man, sticky, exp) ==
    LET s == bn_bits(man) - Precision IN
    IF s <= 0 THEN F64(neg, man, exp)
    ELSE LET q == bn_shr(man, s)
             low == bn_sub(man, bn_shl(q, s))
             half == bn_shl(bn(1), s - 1)
             up == \/ bn_lt(half, low)
                   \/ low = half /\ (sticky \/ q[1] % 2 = 1)
         IN  F64(neg, IF up THEN bn_add(q, bn(1)) ELSE q, exp + s)

\* The exact sum of two f64, before rounding.
exact_add(a, b) ==
    IF a.man = <<>> THEN b
    ELSE IF b.man = <<>> THEN a
    ELSE LET e == IF a.exp < b.exp THEN a.exp ELSE b.exp
             x == bn_shl(a.man, a.exp - e)
             y == bn_shl(b.man, b.exp - e)
         IN  IF a.neg = b.neg THEN F64(a.neg, bn_add(x, y), e)
             ELSE IF x = y THEN F64(FALSE, <<>>, 0)
             ELSE IF bn_lt(x, y) THEN F64(b.neg, bn_sub(y, x), e)
             ELSE F64(a.neg, bn_sub(x, y), e)

\* a + b
f64_add(a, b) ==
    LET d == exact_add(a, b) IN round_f64(d.neg, d.man, FALSE, d.exp)

\* a < b
f64_lt(a, b) ==
    LET d == exact_add(b, F64(~a.neg, a.man, a.exp)) IN d.man # <<>> /\ ~d.neg

\* a / n for a whole number 0 < n <= Limb (numbers.len() as f64 is exact).
f64_div(a, n) ==
    IF a.man = <<>> THEN a
    ELSE LET d == bn_divmod(bn_shl(a.man, 70), n)
         IN  round_f64(a.neg, d.q, d.r # 0, a.exp - 70)

\* The f64 a JSON number of m thousandths is read as: the nearest f64.
f64_of(m) == f64_div(F64(m < 0, bn(IF m < 0 THEN -m ELSE m), 0), Milli)

\* numbers.iter().sum(): the running f64 sum from 0.0, left to right.
RECURSIVE f64_sum_from(_, _)
f64_sum_from(acc, q) ==
    IF q = <<>> THEN acc
    ELSE f64_sum_from(f64_add(acc, f64_of(Head(q))), Tail(q))

f64_sum(q) == f64_sum_from(F64(FALSE, <<>>, 0), q)

RECURSIVE fold_min(_)
fold_min(q) ==
    IF Len(q) = 1 THEN q[1]
    ELSE LET m == fold_min(Tail(q)) IN IF q[1] < m THEN q[1] ELSE m

RECURSIVE fold_max(_)
fold_max(q) ==
    IF Len(q) = 1 THEN q[1]
    ELSE LET m == fold_max(Tail(q)) IN IF q[1] > m THEN q[1] ELSE m

RECURSIVE iter_sum(_)
iter_sum(q) == IF q = <<>> THEN 0 ELSE Head(q) + iter_sum(Tail(q))

\* arr.iter().filter_map(|v| v.as_f64()).collect()
RECURSIVE filter_map_as_f64(_)
filter_map_as_f64(arr) ==
    IF arr = <<>> THEN <<>>
    ELSE (IF as_f64(Head(arr)) = None THEN <<>> ELSE <<Head(arr).num>>)
            \o filter_map_as_f64(Tail(arr))

\* sum / count, printed with three decimals (for samples that are multiples
\* of a tenth and a count of at most four the quotient is never half a
\* thousandth, and the f64 rounding of avg does not reach the third decimal).
avg_fixed3(sum, count) == fixed3((2 * sum + count) \div (2 * count))

\* Variant of WaveformStats with the extremes exchanged.
WaveformStats_swapped(min, max, avg, count) ==
    [min |-> max, max |-> min, avg |-> avg, count |-> count]

\* WaveformStats { min, max, avg, count }: min and max are samples, in
\* thousandths; avg is the f64 quotient.
WaveformStats(min, max, avg, count) ==
    [min |-> min, max |-> max, avg |-> avg, count |-> count]

Points == <<" ", "p", "o", "i", "n", "t", "s">>

\* Variant of process_waveform that reports empty statistics and an empty
\* point list for a waveform without samples.
process_waveform_empty_stats(arr) ==
    LET numbers == filter_map_as_f64(arr) IN
    IF numbers = <<>>
    THEN Processed("Waveform", <<"0">> \o Points, None,
                   Some(WaveformStats(0, 0, F64(FALSE, <<>>, 0), 0)), Some(<<>>))
    ELSE Processed("Waveform",
                   uint_to_string(Len(numbers)) \o Points \o <<" ", "(">>
                      \o fixed3(fold_min(numbers)) \o <<" ", "t", "o", " ">>
                      \o fixed3(fold_max(numbers))
                      \o <<",", " ", "a", "v", "g", ":", " ">>
                      \o avg_fixed3(iter_sum(numbers), Len(numbers)) \o <<")">>,
                   None,
                   Some(WaveformStats(fold_min(numbers), fold_max(numbers),
                                      f64_div(f64_sum(numbers), Len(numbers)),
                                      Len(numbers))),
                   Some(numbers))

\* VitalDataTransformer::process_waveform
process_waveform(arr) ==
    LET numbers == filter_map_as_f64(arr) IN
    IF numbers = <<>>
    THEN Processed("Waveform", <<"0">> \o Points, None, None, None)
    ELSE Processed("Waveform",
                   uint_to_string(Len(numbers)) \o Points \o <<" ", "(">>
                      \o fixed3(fold_min(numbers)) \o <<" ", "t", "o", " ">>
                      \o fixed3(fold_max(numbers))
                      \o <<",", " ", "a", "v", "g", ":", " ">>
                      \o avg_fixed3(iter_sum(numbers), Len(numbers)) \o <<")">>,
                   None,
                   Some(WaveformStats(fold_min(numbers), fold_max(numbers),
                                      f64_div(f64_sum(numbers), Len(numbers)),
                                      Len(numbers))),
                   Some(numbers))

Wav == <<"w", "a", "v">>

\* Variant of process_value that keeps the first sample of a waveform as
\* its raw value.
process_value_raw_waveform(value, track_type) ==
    CASE value.kind = "Number" ->
            Processed("Number", fixed3(value.num), Some(value.num), None, None)
      [] value.kind = "Array" /\ track_type = Wav ->
            LET w == process_waveform(value.items) IN
            [w EXCEPT !.raw_value =
                IF w.waveform_points = None THEN None
                ELSE Some(w.waveform_points[2][1])]
      [] value.kind = "String" ->
            Processed("String", value.str, None, None, None)
      [] OTHER -> Processed("Other", to_string(value), None, None, None)

\* Variant of process_value that takes every array for a waveform.
process_value_any_array(value, track_type) ==
    CASE value.kind = "Number" ->
            Processed("Number", fixed3(value.num), Some(value.num), None, None)
      [] value.kind = "Array" ->
            process_waveform(value.items)
      [] value.kind = "String" ->
            Processed("String", value.str, None, None, None)
      [] OTHER -> Processed("Other", to_string(value), None, None, None)

\* VitalDataTransformer::process_value
process_value(value, track_type) ==
    CASE value.kind = "Number" ->
            Processed("Number", fixed3(value.num), Some(value.num), None, None)
      [] value.kind = "Array" /\ track_type = Wav ->
            process_waveform(value.items)
      [] value.kind = "String" ->
            Processed("String", value.str, None, None, None)
      [] OTHER -> Processed("Other", to_string(value), None, None, None)

\* VitalDataTransformer::process_track
process_track(track, record, room_index, room_name, track_index, record_index) ==
    LET track_name ==
            IF track.name # None THEN track.name[2]
            ELSE unwrap_or(track.display_name,
                    <<"T", "r", "a", "c", "k", "_">> \o uint_to_string(room_index)
                       \o <<"_">> \o uint_to_string(track_index))
        track_type_str == unwrap_or(track.track_type, <<"o", "t", "h", "e", "r">>)
        v == process_value(record.value, track_type_str)
    IN  [name |-> track_name,
         display_value |-> v.display_value,
         raw_value |-> v.raw_value,
         unit |-> unwrap_or(track.unit, <<>>),
         room_index |-> room_index,
         room_name |-> room_name,
         track_index |-> track_index,
         record_index |-> record_index,
         track_type |-> v.track_type,
         waveform_stats |-> v.waveform_stats,
         waveform_points |-> v.waveform_points]

\* ProcessedData::new (its timestamp, the clock's, is left out).
ProcessedData_new(device_id, rooms) ==
    [device_id |-> device_id,
     rooms |-> rooms,
     all_tracks |-> flat_map([i \in 1..Len(rooms) |-> rooms[i].tracks])]

\* Variant of transform_room that takes only the first record of a track.
transform_room_first_record(room, room_index) ==
    LET room_name ==
            unwrap_or(room.room_name,
                      <<"R", "o", "o", "m", "_">> \o uint_to_string(room_index))
    IN  [room_index |-> room_index,
         room_name |-> room_name,
         tracks |->
            flat_map([t \in 1..Len(room.tracks) |->
                [k \in 1..(IF Len(room.tracks[t].records) > 0 THEN 1 ELSE 0) |->
                    process_track(room.tracks[t], room.tracks[t].records[k],
                                  room_index, room_name, t - 1, k - 1)]])]

\* transform, the body of the loop over the rooms: enumerate() counts from 0.
transform_room(room, room_index) ==
    LET room_name ==
            unwrap_or(room.room_name,
                      <<"R", "o", "o", "m", "_">> \o uint_to_string(room_index))
    IN  [room_index |-> room_index,
         room_name |-> room_name,
         tracks |->
            flat_map([t \in 1..Len(room.tracks) |->
                [k \in 1..Len(room.tracks[t].records) |->
                    process_track(room.tracks[t], room.tracks[t].records[k],
                                  room_index, room_name, t - 1, k - 1)]])]

\* VitalDataTransformer::transform
transform(vd) ==
    ProcessedData_new(vd.vr_code,
        [r \in 1..Len(vd.rooms) |-> transform_room(vd.rooms[r], r - 1)])

\* ---------------------------------------------------------- decompressor
\* A buffer is a sequence of bytes.  A zlib stream (RFC 1950) is CMF, FLG,
\* deflate data, Adler-32 of the text, big-endian.
ZlibCMF == 120

\* FLG: FLEVEL in the two top bits, no dictionary, FCHECK making
\* CMF * 256 + FLG a multiple of 31.
ZlibFLG(flevel) ==
    LET base == flevel * 64
        rest == (ZlibCMF * 256 + base) % 31
    IN  base + (IF rest = 0 THEN 0 ELSE 31 - rest)

\* The FLEVEL a deflater writes for a compression level 0..9 (fastest for
\* 0-1, fast for 2-5, default for 6, best for 7-9).
FLevel(level) ==
    IF level < 2 THEN 0 ELSE IF level < 6 THEN 1 ELSE IF level = 6 THEN 2 ELSE 3

RECURSIVE adler_a(_)
adler_a(t) ==
    IF t = <<>> THEN 1 ELSE (adler_a(SubSeq(t, 1, Len(t) - 1)) + t[Len(t)]) % 65521

RECURSIVE adler_b(_)
adler_b(t) ==
    IF t = <<>> THEN 0
    ELSE (adler_b(SubSeq(t, 1, Len(t) - 1)) + adler_a(t)) % 65521

\* Adler-32 of t as four bytes, most significant first.
adler32(t) ==
    <<adler_b(t) \div 256, adler_b(t) % 256, adler_a(t) \div 256, adler_a(t) % 256>>

\* One final stored deflate block: header byte, LEN, its complement, text.
stored_block(t) ==
    <<1, Len(t) % 256, Len(t) \div 256,
      255 - (Len(t) % 256), 255 - (Len(t) \div 256)>> \o t

\* ZlibEncoder::new(Vec::new(), Compression::new(level)), write_all(t),
\* finish().  The deflate data is written as one stored block at every
\* level: which encoding the deflater picks is of no concern to decompress,
\* which looks at the first two bytes only and leaves the rest to the
\* inflater.
zlib_compress(t, level) ==
    <<ZlibCMF, ZlibFLG(FLevel(level))>> \o stored_block(t) \o adler32(t)

\* What read_to_end did: whether it returned Ok, and the bytes it appended
\* to the vector before it returned.
ReadResult(ok, out) == [ok |-> ok, out |-> out]

\* ZlibDecoder::new(s).read_to_end(&mut v) for a stream that holds stored
\* blocks: the header is checked, then the block type and length, the text
\* is written out, and the checksum is compared last.  (A stream that ends
\* early is reported like any other broken stream; the buffers drawn below
\* hold none.)
read_to_end(s) ==
    IF Len(s) < 2 THEN ReadResult(FALSE, <<>>)
    ELSE IF s[1] % 16 # 8 \/ s[1] \div 16 > 7
            \/ (s[1] * 256 + s[2]) % 31 # 0 \/ (s[2] \div 32) % 2 = 1
    THEN ReadResult(FALSE, <<>>)
    ELSE IF Len(s) < 7 THEN ReadResult(FALSE, <<>>)
    ELSE IF s[3] # 1 THEN ReadResult(FALSE, <<>>)
    ELSE LET len == s[4] + 256 * s[5] IN
         IF s[6] # 255 - s[4] \/ s[7] # 255 - s[5] THEN ReadResult(FALSE, <<>>)
         ELSE IF Len(s) < 7 + len + 4 THEN ReadResult(FALSE, <<>>)
         ELSE LET text == SubSeq(s, 8, 7 + len) IN
              IF SubSeq(s, 8 + len, 11 + len) = adler32(text)
              THEN ReadResult(TRUE, text)
              ELSE ReadResult(FALSE, text)

\* Result<Vec<u8>>::Err
Failed(e) == [ok |-> FALSE, err |-> e, val |-> <<>>]

\* Variant of decompress_zlib that returns what was inflated before the
\* error.
VitalDataDecompressor_decompress_zlib_lossy(s) ==
    Ok(read_to_end(s).out)

\* VitalDataDecompressor::decompress_zlib
VitalDataDecompressor_decompress_zlib(s) ==
    LET r == read_to_end(s) IN
    IF r.ok THEN Ok(r.out) ELSE Failed("Decompression")

\* Variant of decompress that takes every buffer beginning with 0x78 for a
\* zlib stream.
VitalDataDecompressor_decompress_any_0x78(buf) ==
    IF buf = <<>> THEN Ok(buf)
    ELSE IF Len(buf) >= 2 /\ buf[1] = 4 /\ buf[2] = 120
    THEN VitalDataDecompressor_decompress_zlib(Tail(buf))
    ELSE IF buf[1] = 120
    THEN VitalDataDecompressor_decompress_zlib(buf)
    ELSE Ok(buf)

\* VitalDataDecompressor::decompress
VitalDataDecompressor_decompress(buf) ==
    IF buf = <<>> THEN Ok(buf)
    ELSE IF Len(buf) >= 2 /\ buf[1] = 4 /\ buf[2] = 120
    THEN VitalDataDecompressor_decompress_zlib(Tail(buf))
    ELSE IF buf[1] = 120 /\ Len(buf) >= 2
            /\ (buf[2] = 156 \/ buf[2] = 218 \/ buf[2] = 1)
    THEN VitalDataDecompressor_decompress_zlib(buf)
    ELSE Ok(buf)

\* ---------------------------------------------------------------- cleaner
\* Text is a sequence of characters.  The classes the five patterns of
\* VitalDataCleaner::new use:
\* [\x00-\x1F\x7F], here the control characters a text below can hold
ControlChars == {"\n", "\t", "\r"}

LowerCase ==
    <<"a", "b", "c", "d", "e", "f", "g", "h", "i", "j", "k", "l", "m",
      "n", "o", "p", "q", "r", "s", "t", "u", "v", "w", "x", "y", "z">>
UpperCase ==
    <<"A", "B", "C", "D", "E", "F", "G", "H", "I", "J", "K", "L", "M",
      "N", "O", "P", "Q", "R", "S", "T", "U", "V", "W", "X", "Y", "Z">>
Range(q) == {q[i] : i \in 1..Len(q)}

\* \d
DigitChars == {"0", "1", "2", "3", "4", "5", "6", "7", "8", "9"}

\* \w
WordChars == Range(LowerCase) \cup Range(UpperCase) \cup DigitChars \cup {"_"}

\* \s
SpaceChars == {" ", "\n", "\t", "\r"}

\* (?i): the character without its case
fold_case(c) ==
    IF c \in Range(UpperCase)
    THEN LowerCase[CHOOSE i \in 1..Len(UpperCase) : UpperCase[i] = c]
    ELSE c

\* The first position from i on whose character is outside class.
skip(text, i, class) ==
    CHOOSE j \in i..(Len(text) + 1) :
        /\ j = Len(text) + 1 \/ text[j] \notin class
        /\ \A k \in i..(j - 1) : text[k] \in class

\* The literal stands at position i, whatever the case of the text.
literal_at(text, i, literal) ==
    /\ i + Len(literal) - 1 <= Len(text)
    /\ \A k \in 1..Len(literal) : fold_case(text[i + k - 1]) = literal[k]

\* (?<!\w) before position i, (?!\w) at position i
not_after_word(text, i) == i = 1 \/ text[i - 1] \notin WordChars
not_before_word(text, i) == i > Len(text) \/ text[i] \notin WordChars

\* [+\-]? at position i: the position behind it
after_sign(text, i) ==
    IF i <= Len(text) /\ text[i] \in {"+", "-"} THEN i + 1 ELSE i

\* -? at position i: the position behind it
after_minus(text, i) ==
    IF i <= Len(text) /\ text[i] = "-" THEN i + 1 ELSE i

\* A match of one of word's alternatives between the look-arounds, begun at
\* i: the position behind the match, 0 without a match.
token_end(text, i, words) ==
    LET j == after_sign(text, i)
        ends == {j + Len(w) : w \in {x \in words :
                    literal_at(text, j, x) /\ not_before_word(text, j + Len(x))}}
    IN  IF not_after_word(text, i) /\ ends # {}
        THEN CHOOSE e \in ends : \A f \in ends : e <= f
        ELSE 0

\* nan_pattern: (?i)(?<!\w)[+\-]?nan(?!\w)
nan_pattern(text, i) == token_end(text, i, {<<"n", "a", "n">>})

\* Variant of infinity_pattern without the longer alternative.
infinity_pattern_inf_only(text, i) == token_end(text, i, {<<"i", "n", "f">>})

\* infinity_pattern: (?i)(?<!\w)[+\-]?(?:inf|infinity)(?!\w)
infinity_pattern(text, i) ==
    token_end(text, i, {<<"i", "n", "f">>,
                        <<"i", "n", "f", "i", "n", "i", "t", "y">>})

\* \d+ at position i: the position behind it, 0 without a digit.
digits_end(text, i) ==
    LET e == skip(text, i, DigitChars) IN IF e > i THEN e ELSE 0

\* -?\d+ , \d+ at position i: where the comma stands and where the match
\* ends, <<0, 0>> without a match.
comma_pair(text, i) ==
    LET a == digits_end(text, after_minus(text, i))
        b == IF a > 0 /\ a <= Len(text) /\ text[a] = ","
             THEN digits_end(text, a + 1) ELSE 0
    IN  IF b > 0 THEN <<a, b>> ELSE <<0, 0>>

\* decimal_obj: (":\s*-?\d+),(\d+)
decimal_obj(text, i) ==
    IF i + 1 <= Len(text) /\ text[i] = "\"" /\ text[i + 1] = ":"
    THEN comma_pair(text, skip(text, i + 2, SpaceChars))
    ELSE <<0, 0>>

\* Variant of decimal_arr that begins at a bracket only.
decimal_arr_bracket_only(text, i) ==
    LET m == IF i <= Len(text) /\ text[i] = "[" THEN comma_pair(text, i + 1)
             ELSE <<0, 0>>
    IN  IF m[2] > 0 /\ m[2] <= Len(text) /\ text[m[2]] \in {",", "]"}
        THEN m ELSE <<0, 0>>

\* decimal_arr: (\[|,\s*)(-?\d+),(\d+)(?=[,\]])
decimal_arr(text, i) ==
    LET m == IF i > Len(text) THEN <<0, 0>>
             ELSE IF text[i] = "[" THEN comma_pair(text, i + 1)
             ELSE IF text[i] = ","
             THEN comma_pair(text, skip(text, i + 1, SpaceChars))
             ELSE <<0, 0>>
    IN  IF m[2] > 0 /\ m[2] <= Len(text) /\ text[m[2]] \in {",", "]"}
        THEN m ELSE <<0, 0>>

\* VitalDataCleaner::remove_control_chars
remove_control_chars(json_str) ==
    SelectSeq(json_str, LAMBDA c : c \notin ControlChars)

Null == <<"n", "u", "l", "l">>

\* Where the leftmost match at or behind position i begins, 0 without one;
\* for a pattern that tells the end of its match, and for one that tells
\* the comma and the end.
first_token(text, i, pattern(_, _)) ==
    LET at == {j \in i..Len(text) : pattern(text, j) > 0} IN
    IF at = {} THEN 0 ELSE CHOOSE j \in at : \A k \in at : j <= k
first_pair(text, i, pattern(_, _)) ==
    LET at == {j \in i..Len(text) : pattern(text, j)[2] > 0} IN
    IF at = {} THEN 0 ELSE CHOOSE j \in at : \A k \in at : j <= k

\* replace_all(json_str, "null") of nan_pattern, from position i on: the
\* matches are taken from left to right, each search beginning where the
\* match before it ended.
RECURSIVE replace_nan_from(_, _)
replace_nan_from(json_str, i) ==
    LET j == first_token(json_str, i, nan_pattern) IN
    IF j = 0 THEN SubSeq(json_str, i, Len(json_str))
    ELSE SubSeq(json_str, i, j - 1) \o Null
            \o replace_nan_from(json_str, nan_pattern(json_str, j))

\* VitalDataCleaner::replace_nan
replace_nan(json_str) == replace_nan_from(json_str, 1)

\* replace_all(json_str, "null") of infinity_pattern, from position i on
RECURSIVE replace_infinity_from(_, _)
replace_infinity_from(json_str, i) ==
    LET j == first_token(json_str, i, infinity_pattern) IN
    IF j = 0 THEN SubSeq(json_str, i, Len(json_str))
    ELSE SubSeq(json_str, i, j - 1) \o Null
            \o replace_infinity_from(json_str, infinity_pattern(json_str, j))

\* VitalDataCleaner::replace_infinity
replace_infinity(json_str) == replace_infinity_from(json_str, 1)

\* The match from i to e with the comma at k written as "$1.$2".
with_point(json_str, i, k, e) ==
    SubSeq(json_str, i, k - 1) \o <<".">> \o SubSeq(json_str, k + 1, e - 1)

\* replace_all(json_str, "$1.$2") of decimal_obj, from position i on
RECURSIVE fix_decimal_obj_from(_, _)
fix_decimal_obj_from(json_str, i) ==
    LET j == first_pair(json_str, i, decimal_obj) IN
    IF j = 0 THEN SubSeq(json_str, i, Len(json_str))
    ELSE LET m == decimal_obj(json_str, j) IN
         SubSeq(json_str, i, j - 1) \o with_point(json_str, j, m[1], m[2])
            \o fix_decimal_obj_from(json_str, m[2])

\* VitalDataCleaner::fix_decimal_obj
fix_decimal_obj(json_str) == fix_decimal_obj_from(json_str, 1)

\* replace_all(json_str, "$1$2.$3") of decimal_arr, from position i on
RECURSIVE fix_decimal_arr_from(_, _)
fix_decimal_arr_from(json_str, i) ==
    LET j == first_pair(json_str, i, decimal_arr) IN
    IF j = 0 THEN SubSeq(json_str, i, Len(json_str))
    ELSE LET m == decimal_arr(json_str, j) IN
         SubSeq(json_str, i, j - 1) \o with_point(json_str, j, m[1], m[2])
            \o fix_decimal_arr_from(json_str, m[2])

\* VitalDataCleaner::fix_decimal_arr
fix_decimal_arr(json_str) == fix_decimal_arr_from(json_str, 1)

\* VitalDataCleaner::clean
VitalDataCleaner_clean(json_str) ==
    Ok(fix_decimal_arr(fix_decimal_obj(replace_infinity(replace_nan(
        remove_control_chars(json_str))))))

\* -------------------------------------------------------------- from_str
\* serde_json::from_str as process_data calls it, in two halves: the text
\* is read as a JSON value, and the value is read as the declared struct.
\* Texts here hold no escapes in strings and no exponents in numbers; a
\* number is kept in thousandths.
JsonSpace == {" ", "\n", "\t", "\r"}

Parsed(v, n) == [ok |-> TRUE, val |-> v, next |-> n]
NotParsed == [ok |-> FALSE, val |-> JNull, next |-> 0]

\* The characters of literal stand at position i.
exact_at(text, i, literal) ==
    /\ i + Len(literal) - 1 <= Len(text)
    /\ SubSeq(text, i, i + Len(literal) - 1) = literal

digit_value(c) == CHOOSE d \in 0..9 : Digit(d) = <<c>>

\* The digits from i up to e (exclusive) as a number.
RECURSIVE digits_value(_, _, _)
digits_value(text, i, e) ==
    IF e <= i THEN 0
    ELSE 10 * digits_value(text, i, e - 1) + digit_value(text[e - 1])

\* The first three digits from i up to e (exclusive) as thousandths.
frac_value(text, i, e) ==
    LET d(k) == IF i + k < e THEN digit_value(text[i + k]) ELSE 0
    IN  100 * d(0) + 10 * d(1) + d(2)

\* A string at position i, where a quote stands.
parse_str(text, i) ==
    LET closing == {j \in (i + 1)..Len(text) : text[j] = "\""} IN
    IF closing = {} THEN NotParsed
    ELSE LET j == CHOOSE x \in closing : \A y \in closing : x <= y
             body == SubSeq(text, i + 1, j - 1)
         IN  IF \E k \in 1..Len(body) : body[k] \in ControlChars \cup {"\\"}
             THEN NotParsed
             ELSE Parsed(JString(body), j + 1)

\* A number at position i, where a minus sign or a digit stands.
parse_number(text, i) ==
    LET m == after_minus(text, i)
        all == digits_end(text, m)
        a == IF all > 0 /\ text[m] = "0" THEN m + 1 ELSE all
        b == IF a > 0 /\ a <= Len(text) /\ text[a] = "."
             THEN digits_end(text, a + 1) ELSE a
        magnitude ==
            Milli * digits_value(text, m, a)
                + (IF b > a THEN frac_value(text, a + 1, b) ELSE 0)
    IN  IF a = 0 \/ b = 0 THEN NotParsed
        ELSE Parsed(JNumber(IF m > i THEN -magnitude ELSE magnitude), b)

RECURSIVE parse_value(_, _)
RECURSIVE parse_elements(_, _, _)
RECURSIVE parse_members(_, _, _)

\* A value at or behind position i0.
parse_value(text, i0) ==
    LET i == skip(text, i0, JsonSpace) IN
    IF i > Len(text) THEN NotParsed
    ELSE IF exact_at(text, i, Null) THEN Parsed(JNull, i + 4)
    ELSE IF exact_at(text, i, <<"t", "r", "u", "e">>)
    THEN Parsed(JBool(TRUE), i + 4)
    ELSE IF exact_at(text, i, <<"f", "a", "l", "s", "e">>)
    THEN Parsed(JBool(FALSE), i + 5)
    ELSE IF text[i] = "\"" THEN parse_str(text, i)
    ELSE IF text[i] \in DigitChars \cup {"-"} THEN parse_number(text, i)
    ELSE IF text[i] = "["
    THEN LET j == skip(text, i + 1, JsonSpace) IN
         IF j <= Len(text) /\ text[j] = "]" THEN Parsed(JArray(<<>>), j + 1)
         ELSE parse_elements(text, j, <<>>)
    ELSE IF text[i] = "{"
    THEN LET j == skip(text, i + 1, JsonSpace) IN
         IF j <= Len(text) /\ text[j] = "}" THEN Parsed(JObject(<<>>), j + 1)
         ELSE parse_members(text, j, <<>>)
    ELSE NotParsed

\* The elements of an array from position i on, behind those in vs.
parse_elements(text, i, vs) ==
    LET r == parse_value(text, i)
        j == skip(text, r.next, JsonSpace)
    IN  IF ~r.ok \/ j > Len(text) THEN NotParsed
        ELSE IF text[j] = "," THEN parse_elements(text, j + 1, Append(vs, r.val))
        ELSE IF text[j] = "]" THEN Parsed(JArray(Append(vs, r.val)), j + 1)
        ELSE NotParsed

\* The members of an object from position i on, behind those in ms.
parse_members(text, i, ms) ==
    LET k == skip(text, i, JsonSpace)
        key == IF k <= Len(text) /\ text[k] = "\"" THEN parse_str(text, k)
               ELSE NotParsed
        c == skip(text, key.next, JsonSpace)
        r == IF key.ok /\ c <= Len(text) /\ text[c] = ":"
             THEN parse_value(text, c + 1) ELSE NotParsed
        j == skip(text, r.next, JsonSpace)
    IN  IF ~r.ok \/ j > Len(text) THEN NotParsed
        ELSE IF text[j] = ","
        THEN parse_members(text, j + 1, Append(ms, Member(key.val.str, r.val)))
        ELSE IF text[j] = "}"
        THEN Parsed(JObject(Append(ms, Member(key.val.str, r.val))), j + 1)
        ELSE NotParsed

\* serde_json::from_str::<Value>: one value and nothing but space behind it.
from_str_value(text) ==
    LET r == parse_value(text, 1) IN
    IF r.ok /\ skip(text, r.next, JsonSpace) > Len(text) THEN r ELSE NotParsed

\* The field of a struct in the object it is read from: None if no member
\* has the name.
field(v, name) ==
    LET at == {i \in 1..Len(v.items) : v.items[i].key = name} IN
    IF at = {} THEN None
    ELSE Some(v.items[CHOOSE i \in at : \A j \in at : i <= j].value)

IsInteger(v) == v.kind = "Number" /\ v.num % Milli = 0

\* Option<String>, Option<f64>, Option<i32>: absent and null are None.
accepts_option(o, kinds) == o = None \/ o[2].kind \in kinds \cup {"Null"}
option_string(o) ==
    IF o = None \/ o[2].kind = "Null" THEN None ELSE Some(o[2].str)

\* deserialize_flexible_timestamp: an integer or a float, null, or absent
accepts_flexible_timestamp(o) == accepts_option(o, {"Number"})

\* deserialize_flexible_id: a string or an integer, null, or absent
accepts_flexible_id(o) ==
    o = None \/ o[2].kind \in {"String", "Null"} \/ IsInteger(o[2])

\* Vec<T>: an array whose every element d accepts; or_default says what an
\* absent field is.
accepts_vec(o, or_default, d(_)) ==
    IF o = None THEN or_default
    ELSE /\ o[2].kind = "Array"
         /\ \A i \in 1..Len(o[2].items) : d(o[2].items[i])
vec_of(o, d(_)) ==
    IF o = None THEN <<>> ELSE [i \in 1..Len(o[2].items) |-> d(o[2].items[i])]

F_vrcode == <<"v", "r", "c", "o", "d", "e">>
F_rooms == <<"r", "o", "o", "m", "s">>
F_seqid == <<"s", "e", "q", "i", "d">>
F_roomname == <<"r", "o", "o", "m", "n", "a", "m", "e">>
F_trks == <<"t", "r", "k", "s">>
F_evts == <<"e", "v", "t", "s">>
F_id == <<"i", "d">>
F_name == <<"n", "a", "m", "e">>
F_type == <<"t", "y", "p", "e">>
F_unit == <<"u", "n", "i", "t">>
F_montype == <<"m", "o", "n", "t", "y", "p", "e">>
F_dname == <<"d", "n", "a", "m", "e">>
F_srate == <<"s", "r", "a", "t", "e">>
F_recs == <<"r", "e", "c", "s">>
F_val == <<"v", "a", "l">>
F_dt == <<"d", "t">>
F_time == <<"t", "i", "m", "e">>
F_msg == <<"m", "s", "g">>

\* Variant of VitalRecord whose value has #[serde(default)].
VitalRecord_accepts_default_val(v) ==
    /\ v.kind = "Object"
    /\ accepts_flexible_timestamp(field(v, F_dt))
    /\ accepts_flexible_timestamp(field(v, F_time))

\* #[derive(Deserialize)] of VitalRecord: val has no default.
VitalRecord_accepts(v) ==
    /\ v.kind = "Object"
    /\ field(v, F_val) # None
    /\ accepts_flexible_timestamp(field(v, F_dt))
    /\ accepts_flexible_timestamp(field(v, F_time))

VitalRecord_read(v) ==
    VitalRecord(IF field(v, F_val) = None THEN JNull ELSE field(v, F_val)[2])

\* #[derive(Deserialize)] of VitalEvent
VitalEvent_accepts(v) ==
    /\ v.kind = "Object"
    /\ accepts_flexible_timestamp(field(v, F_dt))
    /\ accepts_option(field(v, F_msg), {"String"})

\* #[derive(Deserialize)] of VitalTrack
VitalTrack_accepts(v) ==
    /\ v.kind = "Object"
    /\ accepts_flexible_id(field(v, F_id))
    /\ accepts_option(field(v, F_name), {"String"})
    /\ accepts_option(field(v, F_type), {"String"})
    /\ accepts_option(field(v, F_unit), {"String"})
    /\ accepts_option(field(v, F_montype), {"String"})
    /\ accepts_option(field(v, F_dname), {"String"})
    /\ accepts_option(field(v, F_srate), {"Number"})
    /\ accepts_vec(field(v, F_recs), TRUE, VitalRecord_accepts)

VitalTrack_read(v) ==
    VitalTrack(option_string(field(v, F_name)),
               option_string(field(v, F_dname)),
               option_string(field(v, F_type)),
               option_string(field(v, F_unit)),
               vec_of(field(v, F_recs), VitalRecord_read))

\* #[derive(Deserialize)] of VitalRoom
VitalRoom_accepts(v) ==
    /\ v.kind = "Object"
    /\ field(v, F_seqid) = None
           \/ field(v, F_seqid)[2].kind = "Null" \/ IsInteger(field(v, F_seqid)[2])
    /\ accepts_option(field(v, F_roomname), {"String"})
    /\ accepts_vec(field(v, F_trks), TRUE, VitalTrack_accepts)
    /\ accepts_vec(field(v, F_evts), TRUE, VitalEvent_accepts)

VitalRoom_read(v) ==
    VitalRoom(option_string(field(v, F_roomname)),
              vec_of(field(v, F_trks), VitalTrack_read))

\* #[derive(Deserialize)] of VitalData: vrcode and rooms have no default.
\* (A derived struct is also read from an array of its fields in order; no
\* text below holds an array that would fit one.)
VitalData_accepts(v) ==
    /\ v.kind = "Object"
    /\ field(v, F_vrcode) # None
    /\ field(v, F_vrcode)[2].kind = "String"
    /\ accepts_vec(field(v, F_rooms), FALSE, VitalRoom_accepts)

VitalData_read(v) ==
    VitalData(field(v, F_vrcode)[2].str, vec_of(field(v, F_rooms), VitalRoom_read))

\* serde_json::from_str::<VitalData>(&cleaned_json)?
from_str(text) ==
    LET r == from_str_value(text) IN
    IF r.ok /\ VitalData_accepts(r.val) THEN Ok(VitalData_read(r.val))
    ELSE Failed("JsonParse")

\* ------------------------------------------------------------------ state
VARIABLES
    debug_enabled,          \* Config::debug_enabled
    console_enabled,        \* Config::output_console_enabled
    ble_enabled,            \* Config::output_ble_enabled
    listener,               \* "init", "listening", "bind_failed"
    accept_errors,          \* failed accepts logged so far
    shutdown,               \* VitalProcessor::run has returned
    pc,                     \* per connection: where its task is suspended
    pending_binary_event,   \* per connection: Option<String>
    msg,                    \* per connection: the message read last
    prev_pending,           \* per connection: the placeholder when msg was read
    nread,                  \* per connection: messages read so far
    read_kinds,             \* per connection: their kinds, "event" for a '451-' text
    unread,                 \* per connection: frames sent by the client, not read yet
    sids,                   \* per connection: the generated sid (0: none yet)
    outbox,                 \* per connection: frames written to the socket
    errors,                 \* per connection: "Error processing data" logged
    cause,                  \* per connection: why the task ended
    sent,                   \* per connection: frame numbers whose snapshot went to tx
    chan,                   \* the unbounded channel
    lock_holder,            \* task holding debug_file's write lock
    cpc,                    \* where the consumer loop is suspended
    received,               \* snapshots rx.recv() returned, in order
    delivered,              \* per output: snapshots handed to it, in order
    stage,                  \* of a single call: "idle", "called", "returned"
    vital_data,             \* transform: its argument
    processed_data,         \* transform: its result
    input_data,             \* decompress: its argument
    decompressed,           \* decompress: its result
    json_str,               \* clean, from_str: the text
    cleaned_json,           \* clean: its result
    parsed                  \* serde_json::from_str: its result

config == <<debug_enabled, console_enabled, ble_enabled>>
listenerVars == <<listener, accept_errors>>
sessionVars ==
    <<pc, pending_binary_event, msg, prev_pending, nread, read_kinds, sids,
      outbox, errors, cause, sent>>
consumerVars == <<cpc, received, delivered>>
systemVars ==
    <<config, listenerVars, shutdown, sessionVars, unread, chan,
      lock_holder, consumerVars>>
\* State of the calls of single functions, which the running system leaves
\* alone.
transformVars == <<vital_data, processed_data>>
decompressVars == <<input_data, decompressed>>
cleanVars == <<json_str, cleaned_json, parsed>>
callVars == <<stage, transformVars, decompressVars, cleanVars>>
vars == <<systemVars, callVars>>

Outputs == {"console", "ble"}

Snapshot(c, n) == [conn |-> c, seq |-> n]

\* No single call is under way.
NoTransform == vital_data = <<>> /\ processed_data = <<>>
NoDecompress == input_data = <<>> /\ decompressed = <<>>
NoClean == json_str = <<>> /\ cleaned_json = <<>> /\ parsed = <<>>
NoCall == stage = "idle" /\ NoTransform /\ NoDecompress /\ NoClean

\* The system right after construction.
InitSystem ==
    /\ debug_enabled \in BOOLEAN
    /\ console_enabled \in BOOLEAN
    /\ ble_enabled \in BOOLEAN
    /\ listener = "init"
    /\ accept_errors = 0
    /\ shutdown = FALSE
    /\ pc = [c \in Conns |-> "unaccepted"]
    /\ pending_binary_event = [c \in Conns |-> None]
    /\ msg = [c \in Conns |-> NoMsg]
    /\ prev_pending = [c \in Conns |-> None]
    /\ nread = [c \in Conns |-> 0]
    /\ read_kinds = [c \in Conns |-> <<>>]
    /\ unread = [c \in Conns |-> 0]
    /\ sids = [c \in Conns |-> 0]
    /\ outbox = [c \in Conns |-> <<>>]
    /\ errors = [c \in Conns |-> 0]
    /\ cause = [c \in Conns |-> "none"]
    /\ sent = [c \in Conns |-> <<>>]
    /\ chan = <<>>
    /\ lock_holder = NoTask
    /\ cpc = "recv"
    /\ received = <<>>
    /\ delivered = [o \in Outputs |-> <<>>]

Init == InitSystem /\ NoCall

\* The system at rest, for the call of a single function.
AtRest == InitSystem /\ ~debug_enabled /\ ~console_enabled /\ ~ble_enabled

\* --------------------------------------------------------------- listener
\* SocketIOServer::start, TcpListener::bind
Bind ==
    /\ ~shutdown
    /\ listener = "init"
    /\ \E ok \in BOOLEAN :
          listener' = IF ok THEN "listening" ELSE "bind_failed"
    /\ UNCHANGED <<callVars, config, accept_errors, shutdown, sessionVars, unread,
                   chan, lock_holder, consumerVars>>

\* SocketIOServer::start, listener.accept() returned Ok: spawn the task.
Accept(c) ==
    /\ ~shutdown
    /\ listener = "listening"
    /\ pc[c] = "unaccepted"
    /\ \A d \in Conns : d < c => pc[d] # "unaccepted"
    /\ pc' = [pc EXCEPT ![c] = "ws_handshake"]
    /\ UNCHANGED <<callVars, config, listenerVars, shutdown, pending_binary_event,
                   msg, prev_pending, nread, read_kinds, sids, outbox, errors, cause,
                   sent, unread, chan, lock_holder, consumerVars>>

\* Variant of AcceptError in which the error leaves the accept loop, as
\* `listener.accept().await?` would.
AcceptError_fatal ==
    /\ ~shutdown
    /\ listener = "listening"
    /\ accept_errors < MaxAcceptErrors
    /\ accept_errors' = accept_errors + 1
    /\ listener' = "accept_failed"
    /\ UNCHANGED <<callVars, config, shutdown, sessionVars, unread, chan,
                   lock_holder, consumerVars>>

\* SocketIOServer::start, listener.accept() returned Err: log, loop on.
AcceptError ==
    /\ ~shutdown
    /\ listener = "listening"
    /\ accept_errors < MaxAcceptErrors
    /\ accept_errors' = accept_errors + 1
    /\ UNCHANGED <<callVars, config, listener, shutdown, sessionVars, unread, chan,
                   lock_holder, consumerVars>>

\* Variant of CtrlC that waits until no session is in flight.
CtrlC_drains ==
    /\ ~shutdown
    /\ \A c \in Conns : pc[c] \in {"unaccepted", "closed"}
    /\ shutdown' = TRUE
    /\ UNCHANGED <<callVars, config, listenerVars, sessionVars, unread, chan,
                   lock_holder, consumerVars>>

\* VitalProcessor::run, the select!: ctrl_c() resolved.
CtrlC ==
    /\ ~shutdown
    /\ shutdown' = TRUE
    /\ UNCHANGED <<callVars, config, listenerVars, sessionVars, unread, chan,
                   lock_holder, consumerVars>>

\* VitalProcessor::run, the select!: input_task finished (start returned
\* the bind error).
InputTaskStopped ==
    /\ ~shutdown
    /\ listener = "bind_failed"
    /\ shutdown' = TRUE
    /\ UNCHANGED <<callVars, config, listenerVars, sessionVars, unread, chan,
                   lock_holder, consumerVars>>

RECURSIVE Sum(_, _)
Sum(f, S) ==
    IF S = {} THEN 0
    ELSE LET x == CHOOSE y \in S : TRUE IN f[x] + Sum(f, S \ {x})

\* Frames the clients have written so far.
FramesSent == Sum(nread, Conns) + Sum(unread, Conns)

\* VitalProcessor::run, the select! with BLE enabled: ble_task finished
\* (BleOutput::start returned).
BleTaskStopped ==
    /\ ~shutdown
    /\ ble_enabled
    /\ shutdown' = TRUE
    /\ UNCHANGED <<callVars, config, listenerVars, sessionVars, unread, chan,
                   lock_holder, consumerVars>>

\* The client writes one more frame to the connection.
ClientSend(c, max) ==
    /\ ~shutdown
    /\ pc[c] # "unaccepted"
    /\ unread[c] < MaxUnread
    /\ FramesSent < max
    /\ unread' = [unread EXCEPT ![c] = @ + 1]
    /\ UNCHANGED <<callVars, config, listenerVars, shutdown, sessionVars, chan,
                   lock_holder, consumerVars>>

\* --------------------------------------------------------------- sessions
\* Variant of Finish in which the error of one task ends every session.
Finish_all(c, why) ==
    /\ pc' = [d \in Conns |-> IF pc[d] = "unaccepted" THEN pc[d] ELSE "closed"]
    /\ cause' = [cause EXCEPT ![c] = why]

\* The task of connection c returns (Ok or Err): nothing of it runs again.
Finish(c, why) ==
    /\ pc' = [pc EXCEPT ![c] = "closed"]
    /\ cause' = [cause EXCEPT ![c] = why]

\* Variant of tx_send: a queue that hands out the newest message first.
tx_send_front(q, x) == <<x>> \o q

\* mpsc queue: UnboundedSender::send puts the message at the back.
tx_send(q, x) == Append(q, x)

\* Variant of Apply with one placeholder shared by all connections.
Apply_shared(c, eff, n) ==
    /\ pc' = [pc EXCEPT ![c] = eff.pc]
    /\ pending_binary_event' = [d \in Conns |-> eff.pending]
    /\ chan' = IF eff.emit THEN tx_send(chan, Snapshot(c, n)) ELSE chan
    /\ sent' = IF eff.emit THEN [sent EXCEPT ![c] = Append(@, n)] ELSE sent
    /\ errors' = IF eff.logerr THEN [errors EXCEPT ![c] = @ + 1] ELSE errors
    /\ cause' = IF eff.pc = "closed"
                THEN [cause EXCEPT ![c] = "close_frame"] ELSE cause

\* One run of the handler of connection c, handling frame number n.
Apply(c, eff, n) ==
    /\ pc' = [pc EXCEPT ![c] = eff.pc]
    /\ pending_binary_event' = [pending_binary_event EXCEPT ![c] = eff.pending]
    /\ chan' = IF eff.emit THEN tx_send(chan, Snapshot(c, n)) ELSE chan
    /\ sent' = IF eff.emit THEN [sent EXCEPT ![c] = Append(@, n)] ELSE sent
    /\ errors' = IF eff.logerr THEN [errors EXCEPT ![c] = @ + 1] ELSE errors
    /\ cause' = IF eff.pc = "closed"
                THEN [cause EXCEPT ![c] = "close_frame"] ELSE cause

\* handle_connection, accept_async(stream).await
WsHandshake(c) ==
    /\ ~shutdown
    /\ pc[c] = "ws_handshake"
    /\ \E ok \in BOOLEAN :
          IF ok
          THEN /\ pc' = [pc EXCEPT ![c] = "send_conn_response"]
               /\ cause' = cause
          ELSE Finish(c, "ws_handshake_failed")
    /\ UNCHANGED <<callVars, config, listenerVars, shutdown, pending_binary_event,
                   msg, prev_pending, nread, read_kinds, sids, outbox, errors, sent,
                   unread, chan, lock_holder, consumerVars>>

\* uuid::Uuid::new_v4(): an id no other session has.
FreshSid == 1 + Cardinality({c \in Conns : sids[c] # 0})

\* handle_connection, write.send(Message::Text(connection_response)).await
SendConnectionResponse(c) ==
    /\ ~shutdown
    /\ pc[c] = "send_conn_response"
    /\ sids' = [sids EXCEPT ![c] = FreshSid]
    /\ \E ok \in BOOLEAN :
          IF ok
          THEN /\ outbox' = [outbox EXCEPT
                                ![c] = Append(@, ConnectionResponse(FreshSid))]
               /\ pc' = [pc EXCEPT
                            ![c] = IF debug_enabled THEN "log_conn" ELSE "read"]
               /\ cause' = cause
          ELSE /\ outbox' = outbox
               /\ Finish(c, "handshake_send_failed")
    /\ UNCHANGED <<callVars, config, listenerVars, shutdown, pending_binary_event,
                   msg, prev_pending, nread, read_kinds, errors, sent, unread, chan,
                   lock_holder, consumerVars>>

\* handle_connection, read.next().await yielded Some(Ok(m)).
Read(c, inbound) ==
    /\ ~shutdown
    /\ pc[c] = "read"
    /\ unread[c] > 0
    /\ \E m \in inbound :
          /\ msg' = [msg EXCEPT ![c] = m]
          /\ Apply(c, on_message(m, pending_binary_event[c], debug_enabled),
                   nread[c] + 1)
    /\ prev_pending' = [prev_pending EXCEPT ![c] = pending_binary_event[c]]
    /\ nread' = [nread EXCEPT ![c] = @ + 1]
    /\ read_kinds' =
          [read_kinds EXCEPT
             ![c] = Append(@, IF msg'[c].type = "Binary" THEN "binary"
                              ELSE IF /\ msg'[c].type = "Text"
                                      /\ starts_with(msg'[c].text,
                                                     <<"4", "5", "1", "-">>)
                              THEN "event"
                              ELSE "other")]
    /\ unread' = [unread EXCEPT ![c] = @ - 1]
    /\ UNCHANGED <<callVars, config, listenerVars, shutdown, sids, outbox,
                   lock_holder, consumerVars>>

\* handle_connection, read.next().await yielded Some(Err(e)): warn, break.
ReadError(c) ==
    /\ ~shutdown
    /\ pc[c] = "read"
    /\ Finish(c, "read_error")
    /\ UNCHANGED <<callVars, config, listenerVars, shutdown, pending_binary_event,
                   msg, prev_pending, nread, read_kinds, sids, outbox, errors, sent,
                   unread, chan, lock_holder, consumerVars>>

\* handle_connection, read.next().await yielded None: the loop ends.
ReadEnd(c) ==
    /\ ~shutdown
    /\ pc[c] = "read"
    /\ unread[c] = 0
    /\ Finish(c, "stream_end")
    /\ UNCHANGED <<callVars, config, listenerVars, shutdown, pending_binary_event,
                   msg, prev_pending, nread, read_kinds, sids, outbox, errors, sent,
                   unread, chan, lock_holder, consumerVars>>

\* debug_file.write().await resolves: the task holds the write lock.
DebugLockAcquire(c) ==
    /\ ~shutdown
    /\ pc[c] \in LogPcs
    /\ lock_holder = NoTask
    /\ lock_holder' = c
    /\ UNCHANGED <<callVars, config, listenerVars, shutdown, sessionVars, unread,
                   chan, consumerVars>>

\* Variant of DebugWriteRelease that keeps the guard while further writes
\* of the same frame are to come.
DebugWriteRelease_keeps_guard(c) ==
    /\ ~shutdown
    /\ pc[c] \in LogPcs
    /\ lock_holder = c
    /\ Apply(c, after_debug_write(pc[c], msg[c], pending_binary_event[c],
                                  debug_enabled), nread[c])
    /\ lock_holder' = IF pc'[c] \in LogPcs THEN c ELSE NoTask
    /\ UNCHANGED <<callVars, config, listenerVars, shutdown, msg, prev_pending,
                   nread, read_kinds, sids, outbox, unread, consumerVars>>

\* writeln!(file, ...), the guard is dropped, and the handler runs on to
\* its next suspension point.
DebugWriteRelease(c) ==
    /\ ~shutdown
    /\ pc[c] \in LogPcs
    /\ lock_holder = c
    /\ lock_holder' = NoTask
    /\ Apply(c, after_debug_write(pc[c], msg[c], pending_binary_event[c],
                                  debug_enabled), nread[c])
    /\ UNCHANGED <<callVars, config, listenerVars, shutdown, msg, prev_pending,
                   nread, read_kinds, sids, outbox, unread, consumerVars>>

\* handle_connection, write.send(Message::Text("3")).await
SendPong(c) ==
    /\ ~shutdown
    /\ pc[c] = "send_pong"
    /\ \E ok \in BOOLEAN :
          IF ok
          THEN /\ outbox' = [outbox EXCEPT ![c] = Append(@, PongText)]
               /\ pc' = [pc EXCEPT ![c] = "read"]
               /\ cause' = cause
          ELSE /\ outbox' = outbox
               /\ Finish(c, "write_failed")
    /\ UNCHANGED <<callVars, config, listenerVars, shutdown, pending_binary_event,
                   msg, prev_pending, nread, read_kinds, sids, errors, sent, unread,
                   chan, lock_holder, consumerVars>>

\* handle_connection, write.send(Message::Pong(data)).await
SendCtlPong(c) ==
    /\ ~shutdown
    /\ pc[c] = "send_ctl_pong"
    /\ \E ok \in BOOLEAN :
          IF ok
          THEN /\ outbox' = [outbox EXCEPT ![c] = Append(@, PongCtl)]
               /\ pc' = [pc EXCEPT ![c] = "read"]
               /\ cause' = cause
          ELSE /\ outbox' = outbox
               /\ Finish(c, "write_failed")
    /\ UNCHANGED <<callVars, config, listenerVars, shutdown, pending_binary_event,
                   msg, prev_pending, nread, read_kinds, sids, errors, sent, unread,
                   chan, lock_holder, consumerVars>>

\* --------------------------------------------------------------- consumer
\* Variant of consumer_outputs in which a console that is configured keeps
\* the snapshot from BLE.
consumer_outputs_first_only(data, con, ble, dl) ==
    [cpc |-> IF ble /\ ~con THEN "ble_output" ELSE "recv",
     delivered |->
        [o \in Outputs |->
            IF (o = "console" /\ con) \/ (o = "ble" /\ ble /\ ~con)
            THEN Append(dl[o], data) ELSE dl[o]]]

\* VitalProcessor::run, the processing loop after its debug dump: hand the
\* snapshot to the console, then to BLE (whose output awaits its buffer).
consumer_outputs(data, con, ble, dl) ==
    [cpc |-> IF ble THEN "ble_output" ELSE "recv",
     delivered |->
        [o \in Outputs |->
            IF (o = "console" /\ con) \/ (o = "ble" /\ ble)
            THEN Append(dl[o], data) ELSE dl[o]]]

\* mpsc queue: the message recv() yields, and what stays queued.
rx_front(q) == Head(q)
rx_rest(q) == Tail(q)

\* rx.recv().await yielded Some(data)
ConsumerRecv ==
    /\ ~shutdown
    /\ cpc = "recv"
    /\ chan # <<>>
    /\ chan' = rx_rest(chan)
    /\ received' = Append(received, rx_front(chan))
    /\ IF debug_enabled
       THEN /\ cpc' = "log_data"
            /\ delivered' = delivered
       ELSE LET r == consumer_outputs(rx_front(chan), console_enabled,
                                      ble_enabled, delivered) IN
            /\ cpc' = r.cpc
            /\ delivered' = r.delivered
    /\ UNCHANGED <<callVars, config, listenerVars, shutdown, sessionVars, unread,
                   lock_holder>>

\* The write calls made under one guard: a session writes one record, and
\* write_debug_data the dump of a snapshot, which has eight lines above
\* the rooms and three below them.
guard_writes(task) == IF task = ConsumerTask THEN 8 + 3 ELSE 1

\* write_debug_data, debug_file.write().await resolves.
ConsumerLockAcquire ==
    /\ ~shutdown
    /\ cpc = "log_data"
    /\ lock_holder = NoTask
    /\ lock_holder' = ConsumerTask
    /\ UNCHANGED <<callVars, config, listenerVars, shutdown, sessionVars, unread,
                   chan, consumerVars>>

\* Variant of ConsumerWriteRelease that keeps the guard while the snapshot
\* is handed to the outputs.
ConsumerWriteRelease_holds_over_outputs ==
    /\ ~shutdown
    /\ cpc = "log_data"
    /\ lock_holder = ConsumerTask
    /\ LET r == consumer_outputs(received[Len(received)], console_enabled,
                                 ble_enabled, delivered) IN
       /\ cpc' = r.cpc
       /\ delivered' = r.delivered
       /\ lock_holder' = IF r.cpc = "ble_output" THEN ConsumerTask ELSE NoTask
    /\ UNCHANGED <<callVars, config, listenerVars, shutdown, sessionVars, unread,
                   chan, received>>

\* write_debug_data writes the dump and drops the guard; the loop goes on
\* to the outputs.
ConsumerWriteRelease ==
    /\ ~shutdown
    /\ cpc = "log_data"
    /\ lock_holder = ConsumerTask
    /\ lock_holder' = NoTask
    /\ LET r == consumer_outputs(received[Len(received)], console_enabled,
                                 ble_enabled, delivered) IN
       /\ cpc' = r.cpc
       /\ delivered' = r.delivered
    /\ UNCHANGED <<callVars, config, listenerVars, shutdown, sessionVars, unread,
                   chan, received>>

\* BleOutput::output returned (Ok, or Err which is logged).
ConsumerBleDone ==
    /\ ~shutdown
    /\ cpc = "ble_output"
    /\ cpc' = "recv"
    /\ UNCHANGED <<callVars, config, listenerVars, shutdown, sessionVars, unread,
                   chan, lock_holder, received, delivered>>

\* ------------------------------------------------------------------- spec
\* The whole system: the listener, every connection, the consumer loop;
\* the clients send the frames of the known sender.
Next ==
    \/ Bind
    \/ \E c \in Conns : Accept(c)
    \/ AcceptError
    \/ CtrlC
    \/ InputTaskStopped
    \/ BleTaskStopped
    \/ \E c \in Conns : ClientSend(c, MaxSharedFrames)
    \/ \E c \in Conns : WsHandshake(c)
    \/ \E c \in Conns : SendConnectionResponse(c)
    \/ \E c \in Conns : Read(c, SenderFrames)
    \/ \E c \in Conns : ReadError(c)
    \/ \E c \in Conns : ReadEnd(c)
    \/ \E c \in Conns : DebugLockAcquire(c)
    \/ \E c \in Conns : DebugWriteRelease(c)
    \/ \E c \in Conns : SendPong(c)
    \/ ConsumerRecv
    \/ ConsumerLockAcquire
    \/ ConsumerWriteRelease
    \/ ConsumerBleDone

Spec == Init /\ [][Next]_vars

\* One connection, whose client may send any frame.
FirstConn == CHOOSE c \in Conns : \A d \in Conns : c <= d

NextSession ==
    \/ Bind
    \/ Accept(FirstConn)
    \/ AcceptError
    \/ CtrlC
    \/ InputTaskStopped
    \/ BleTaskStopped
    \/ ClientSend(FirstConn, MaxFrames)
    \/ WsHandshake(FirstConn)
    \/ SendConnectionResponse(FirstConn)
    \/ Read(FirstConn, Frames)
    \/ ReadError(FirstConn)
    \/ ReadEnd(FirstConn)
    \/ DebugLockAcquire(FirstConn)
    \/ DebugWriteRelease(FirstConn)
    \/ SendPong(FirstConn)
    \/ SendCtlPong(FirstConn)
    \/ ConsumerRecv
    \/ ConsumerLockAcquire
    \/ ConsumerWriteRelease
    \/ ConsumerBleDone

SpecSession == Init /\ [][NextSession]_vars

\* Every connection streams well-formed data to a server with both outputs
\* configured; the accepts succeed.
InitStream == Init /\ console_enabled /\ ble_enabled

NextStream ==
    \/ Bind
    \/ \E c \in Conns : Accept(c)
    \/ CtrlC
    \/ InputTaskStopped
    \/ BleTaskStopped
    \/ \E c \in Conns : ClientSend(c, MaxStreamFrames)
    \/ \E c \in Conns : WsHandshake(c)
    \/ \E c \in Conns : SendConnectionResponse(c)
    \/ \E c \in Conns : Read(c, StreamFrames)
    \/ \E c \in Conns : ReadError(c)
    \/ \E c \in Conns : ReadEnd(c)
    \/ \E c \in Conns : DebugLockAcquire(c)
    \/ \E c \in Conns : DebugWriteRelease(c)
    \/ ConsumerRecv
    \/ ConsumerLockAcquire
    \/ ConsumerWriteRelease
    \/ ConsumerBleDone

SpecStream == InitStream /\ [][NextStream]_vars

\* The same system under the scheduling the runtime gives: the consumer
\* task is polled whenever it can run, the debug-file lock (a FIFO-fair
\* tokio RwLock) is granted to a task that keeps asking, and a task holding
\* it runs on to the release.
NextFair ==
    \/ Bind
    \/ \E c \in Conns : Accept(c)
    \/ CtrlC
    \/ InputTaskStopped
    \/ BleTaskStopped
    \/ \E c \in Conns : ClientSend(c, MaxFairFrames)
    \/ \E c \in Conns : WsHandshake(c)
    \/ \E c \in Conns : SendConnectionResponse(c)
    \/ \E c \in Conns : Read(c, StreamFrames)
    \/ \E c \in Conns : ReadError(c)
    \/ \E c \in Conns : ReadEnd(c)
    \/ \E c \in Conns : DebugLockAcquire(c)
    \/ \E c \in Conns : DebugWriteRelease(c)
    \/ ConsumerRecv
    \/ ConsumerLockAcquire
    \/ ConsumerWriteRelease
    \/ ConsumerBleDone

Fairness ==
    /\ WF_vars(ConsumerRecv)
    /\ SF_vars(ConsumerLockAcquire)
    /\ WF_vars(ConsumerWriteRelease)
    /\ WF_vars(ConsumerBleDone)
    /\ \A c \in Conns : WF_vars(DebugWriteRelease(c))

FairSpecStream == InitStream /\ [][NextFair]_vars /\ Fairness

\* The same system when every task that waits for the debug-file lock is
\* served: tokio's RwLock queues its waiters first in, first out, so a
\* waiter is not passed over for ever while the lock keeps being released.
LockFairness == \A c \in Conns : SF_vars(DebugLockAcquire(c))

FairSpecLock == InitStream /\ [][NextFair]_vars /\ Fairness /\ LockFairness

\* ------------------------------------------------- transform, on its own
\* Sequences over S of length at most n.
SeqsUpTo(S, n) == UNION {[1..k -> S] : k \in 0..n}

\* A document of a given shape: every record holds a number that tells
\* where it stands.
ShapedTrack(r, t, n) ==
    VitalTrack(None, None, None, None,
               [k \in 1..n |->
                   VitalRecord(JNumber((100 * r + 10 * t + k) * Milli))])
ShapedData(shape) ==
    VitalData(<<"V", "R">>,
        [r \in 1..Len(shape) |->
            VitalRoom(None,
                [t \in 1..Len(shape[r]) |-> ShapedTrack(r, t, shape[r][t])])])
\* Shapes: rooms that all hold the same tracks, whatever the records of each
\* track; and rooms that differ, the tracks of a room holding equally many
\* records.
RepeatedRooms ==
    {[r \in 1..n |-> s] :
        n \in 0..MaxRooms, s \in SeqsUpTo(0..MaxRecords, MaxTracks)}
EvenRooms ==
    {[r \in 1..Len(q) |-> [t \in 1..q[r][1] |-> q[r][2]]] :
        q \in SeqsUpTo((0..MaxTracks) \X (0..MaxRecords), MaxRooms)}
Shapes == RepeatedRooms \cup EvenRooms

\* Record values of every JSON type, and the type hints of a track.
Samples ==
    {JNumber(1 * Milli), JNumber(-3 * Milli), JNumber(Milli \div 10), JNull,
     JString(<<"x">>)}
Values ==
    {JNumber(0), JNumber(-2500), JNumber(7 * Milli), JString(<<"o", "k">>),
     JString(<<>>), JNull, JBool(TRUE), JObject(<<>>),
     JObject(<<Member(<<"a">>, JNumber(1 * Milli))>>)}
    \cup {JArray(q) : q \in SeqsUpTo(Samples, MaxSamples)}
TypeHints == {None, Some(Wav), Some(<<"n", "u", "m">>), Some(<<"W", "A", "V">>)}

\* One record of any value under any hint, in a named room.
ValuedData(hint, value) ==
    VitalData(<<"V", "R">>,
        <<VitalRoom(Some(<<"O", "R">>),
            <<VitalTrack(Some(<<"H", "R">>), None, hint, Some(<<"b", "p", "m">>),
                         <<VitalRecord(value)>>)>>)>>)

VitalDatas ==
    {ShapedData(shape) : shape \in Shapes}
    \cup {ValuedData(hint, value) : hint \in TypeHints, value \in Values}

InitTransform ==
    /\ AtRest
    /\ stage = "called"
    /\ vital_data \in VitalDatas
    /\ processed_data = <<>>
    /\ NoDecompress
    /\ NoClean

\* process_data, step 5: transformer.transform(vital_data)
Transform ==
    /\ stage = "called"
    /\ stage' = "returned"
    /\ processed_data' = transform(vital_data)
    /\ UNCHANGED <<systemVars, vital_data, decompressVars, cleanVars>>

NextTransform == Transform

SpecTransform == InitTransform /\ [][NextTransform]_vars

\* ------------------------------------------------ decompress, on its own
\* Texts that are compressed: '{', '"', 'a'.
CompressTexts == SeqsUpTo({123, 34, 97}, MaxTextLen)

Levels == 0..9

\* The 0x04 binary indicator in front of a stream.
Indicated(s) == <<4>> \o s

\* s with the byte at i replaced.
Patched(s, i, b) == [s EXCEPT ![i] = b]

\* What compressors produce, bare and behind the indicator.
CompressedBuffers ==
    {zlib_compress(t, l) : t \in CompressTexts, l \in Levels}
    \cup {Indicated(zlib_compress(t, l)) : t \in CompressTexts, l \in Levels}

\* Streams that end where they should and do not inflate: a reserved block
\* type, a length that contradicts its complement, a wrong checksum.
BrokenStreams ==
    UNION {LET s == zlib_compress(t, l) IN
           {Patched(s, 3, 7),
            Patched(s, 6, (s[6] + 1) % 256),
            Patched(s, Len(s), (s[Len(s)] + 1) % 256)} :
           t \in CompressTexts, l \in Levels}

\* Broken streams under a header decompress recognises, and behind the
\* indicator also such with a header no inflater accepts.
BrokenBuffers ==
    {s \in BrokenStreams : s[2] \in {1, 156, 218}}
    \cup {Indicated(s) : s \in BrokenStreams}
    \cup {Indicated(Patched(zlib_compress(t, 6), 2, 0)) : t \in CompressTexts}

PlainBytes == {4, 120, 1, 156, 218, 94, 123}

\* Buffers that are no zlib stream: short byte strings without the bytes
\* decompress looks for at their head.
PlainBuffers ==
    {b \in SeqsUpTo(PlainBytes, MaxPlainLen) :
        \/ Len(b) < 2
        \/ /\ ~(b[1] = 4 /\ b[2] = 120)
           /\ ~(b[1] = 120 /\ b[2] \in {1, 156, 218})}

Buffers == CompressedBuffers \cup BrokenBuffers \cup PlainBuffers

InitDecompress ==
    /\ AtRest
    /\ stage = "called"
    /\ input_data \in Buffers
    /\ decompressed = <<>>
    /\ NoTransform
    /\ NoClean

\* process_data, step 1: decompressor.decompress(data)
Decompress ==
    /\ stage = "called"
    /\ stage' = "returned"
    /\ decompressed' = VitalDataDecompressor_decompress(input_data)
    /\ UNCHANGED <<systemVars, input_data, transformVars, cleanVars>>

NextDecompress == Decompress

SpecDecompress == InitDecompress /\ [][NextDecompress]_vars

\* --------------------------------------------- clean and parse, on their own
quote(t) == <<"\"">> \o t \o <<"\"">>
member(name, value_text) == quote(name) \o <<":">> \o value_text

\* The texts of ts that are not empty, with commas between them.
RECURSIVE join(_)
join(ts) ==
    IF ts = <<>> THEN <<>>
    ELSE IF Head(ts) = <<>> THEN join(Tail(ts))
    ELSE LET rest == join(Tail(ts)) IN
         Head(ts) \o (IF rest = <<>> THEN <<>> ELSE <<",">> \o rest)

object(members) == <<"{">> \o join(members) \o <<"}">>
array(elements) == <<"[">> \o join(elements) \o <<"]">>

\* A member that is present with one of the given values, or absent.
OptionalMember(name, value_texts) ==
    {<<>>} \cup {member(name, t) : t \in value_texts}

\* Documents as VitalRecorder sends them, with every field there or not,
\* and some fields holding a value of another type than declared.
RecordTexts ==
    {object(<<v, d, t>>) :
        v \in OptionalMember(F_val, {<<"1">>}),
        d \in OptionalMember(F_dt, {<<"5">>, quote(<<"x">>)}),
        t \in OptionalMember(F_time, {<<"6">>})}
TrackTexts ==
    {object(<<n, ty, u, r>>) :
        n \in OptionalMember(F_name, {quote(<<"H", "R">>), <<"7">>}),
        ty \in OptionalMember(F_type, {quote(<<"n", "u", "m">>)}),
        u \in OptionalMember(F_unit, {quote(<<"b", "p", "m">>)}),
        r \in OptionalMember(F_recs, {array(<<rec>>) : rec \in RecordTexts})}
RoomTexts ==
    {object(<<rn, tr>>) :
        rn \in OptionalMember(F_roomname, {quote(<<"O", "R">>)}),
        tr \in OptionalMember(F_trks, {array(<<trk>>) : trk \in TrackTexts})}
DocumentTexts ==
    {object(<<vc, rs>>) :
        vc \in OptionalMember(F_vrcode, {quote(<<"V", "R">>), <<"1">>}),
        rs \in OptionalMember(F_rooms,
                  {<<"1">>, array(<<>>)} \cup {array(<<room>>) : room \in RoomTexts})}

\* Documents cut short: the closing brace is missing.
CutTexts == {SubSeq(t, 1, Len(t) - 1) : t \in DocumentTexts}

\* Well-formed JSON of other shapes: scalars, arrays of them, an object
\* around each, also with space or a line break behind a comma.
Scalars ==
    {JNull, JBool(TRUE), JNumber(Milli), JNumber(-2 * Milli), JNumber(1500),
     JString(<<"a">>), JString(<<"n", "a", "n">>)}
Arrays == {JArray(q) : q \in SeqsUpTo(Scalars, 2)}
Objects == {JObject(<<Member(F_val, v)>>) : v \in Scalars \cup Arrays}
CompactTexts == {to_string(v) : v \in Scalars \cup Arrays \cup Objects}
spaced(text, gap) ==
    flat_map([i \in 1..Len(text) |->
                 IF text[i] = "," THEN <<",", gap>> ELSE <<text[i]>>])
WellFormedTexts ==
    CompactTexts
    \cup {spaced(t, " ") : t \in CompactTexts}
    \cup {spaced(t, "\n") : t \in CompactTexts}

\* Numbers written with a comma for the decimal point: what stands before
\* the comma, what stands behind it, and the number meant, in thousandths.
CommaNumber(int, frac, num) == [int |-> int, frac |-> frac, num |-> num]
CommaNumbers ==
    {CommaNumber(<<"1">>, <<"5">>, 1500),
     CommaNumber(<<"2">>, <<"3">>, 2300),
     CommaNumber(<<"7", "5">>, <<"5">>, 75500),
     CommaNumber(<<"3">>, <<"0", "7">>, 3070),
     CommaNumber(<<"-", "0">>, <<"5">>, -500),
     CommaNumber(<<"-", "1", "2", "3">>, <<"4", "5", "6">>, -123456)}
comma_text(n) == n.int \o <<",">> \o n.frac

\* The texts of ts with the separator between them.
RECURSIVE separated(_, _)
separated(ts, separator) ==
    IF ts = <<>> THEN <<>>
    ELSE IF Len(ts) = 1 THEN ts[1]
    ELSE ts[1] \o separator \o separated(Tail(ts), separator)

Separators == {<<",">>, <<",", " ">>}
Colons == {<<":">>, <<":", " ">>}
F_w == <<"w">>
F_hr == <<"h", "r">>

\* {"w":[1,5, 2,3]}: an array of such numbers under a key
comma_array_text(ns, separator) ==
    <<"{">> \o quote(F_w) \o <<":", "[">>
        \o separated([i \in 1..Len(ns) |-> comma_text(ns[i])], separator)
        \o <<"]", "}">>
\* {"hr": 75,5, "w": 1,5}: such numbers as the values of an object
comma_object_text(ns, colon, separator) ==
    <<"{">>
        \o separated([i \in 1..Len(ns) |->
                quote(IF i = 1 THEN F_hr ELSE F_w) \o colon \o comma_text(ns[i])],
              separator)
        \o <<"}">>
CommaLists == SeqsUpTo(CommaNumbers, MaxPairs) \ {<<>>}
CommaTexts ==
    {comma_array_text(ns, sep) : ns \in CommaLists, sep \in Separators}
    \cup {comma_object_text(ns, colon, sep) :
            ns \in CommaLists, colon \in Colons, sep \in Separators}

\* The tokens VitalRecorder writes for a number that is none.
NonNumbers ==
    {<<"N", "a", "N">>, <<"n", "a", "n">>, <<"+", "N", "a", "N">>,
     <<"-", "N", "A", "N">>, <<"i", "n", "f">>, <<"-", "i", "n", "f">>,
     <<"+", "I", "n", "f">>, <<"I", "n", "f", "i", "n", "i", "t", "y">>,
     <<"-", "I", "n", "f", "i", "n", "i", "t", "y">>,
     <<"+", "i", "n", "f", "i", "n", "i", "t", "y">>,
     <<"I", "N", "F", "I", "N", "I", "T", "Y">>}
\* A token, or the number 7.
Seven == <<"7">>
TokenLists ==
    {ts \in SeqsUpTo(NonNumbers \cup {Seven}, MaxPairs) :
        \E i \in 1..Len(ts) : ts[i] # Seven}
token_array_text(ts, separator) ==
    <<"{">> \o quote(F_w) \o <<":", "[">> \o separated(ts, separator) \o <<"]", "}">>
token_object_text(ts, colon, separator) ==
    <<"{">>
        \o separated([i \in 1..Len(ts) |->
                quote(IF i = 1 THEN F_hr ELSE F_w) \o colon \o ts[i]], separator)
        \o <<"}">>
TokenTexts ==
    {token_array_text(ts, <<",", " ">>) : ts \in TokenLists}
    \cup {token_object_text(ts, colon, sep) :
            ts \in TokenLists, colon \in Colons, sep \in Separators}

DefectiveTexts == CommaTexts \cup TokenTexts

JsonTexts ==
    DocumentTexts \cup CutTexts \cup WellFormedTexts \cup DefectiveTexts

InitRepair ==
    /\ AtRest
    /\ stage = "called"
    /\ json_str \in JsonTexts
    /\ cleaned_json = <<>>
    /\ parsed = <<>>
    /\ NoTransform
    /\ NoDecompress

\* process_data, step 3: cleaner.clean(&json_str)?
Clean ==
    /\ stage = "called"
    /\ LET r == VitalDataCleaner_clean(json_str) IN
        /\ r.ok
        /\ cleaned_json' = r.val
    /\ stage' = "cleaned"
    /\ UNCHANGED <<systemVars, json_str, parsed, transformVars, decompressVars>>

\* process_data, step 4: serde_json::from_str(&cleaned_json)?
Parse ==
    /\ stage = "cleaned"
    /\ parsed' = from_str(cleaned_json)
    /\ stage' = "returned"
    /\ UNCHANGED <<systemVars, json_str, cleaned_json, transformVars, decompressVars>>

NextRepair == Clean \/ Parse

SpecRepair == InitRepair /\ [][NextRepair]_vars

\* ----------------------------------------------------------------- claims
Occurrences(x, q) == Cardinality({i \in DOMAIN q : q[i] = x})

\* Everything the sessions have put into the channel, in channel order.
Channelled == received \o chan

\* The frame numbers of connection c's snapshots in q, in the order of q.
RECURSIVE SeqsOf(_, _)
SeqsOf(c, q) ==
    IF q = <<>> THEN <<>>
    ELSE IF Head(q).conn = c
         THEN <<Head(q).seq>> \o SeqsOf(c, Tail(q))
         ELSE SeqsOf(c, Tail(q))

Increasing(q) == \A i, j \in DOMAIN q : i < j => q[i] < q[j]

IsPrefix(p, q) == Len(p) <= Len(q) /\ SubSeq(q, 1, Len(p)) = p

\* What the specification of the pipeline promises for a payload: a buffer
\* with a zlib or binary-indicator header must inflate, the text must be
\* UTF-8 and valid JSON after repair, and carry vrcode and rooms.
HasZlibHeader(data) ==
    \/ data.head = <<4, 120>>
    \/ data.head \in {<<120, 1>>, <<120, 156>>, <<120, 218>>}

PipelineSucceeds(data) ==
    /\ HasZlibHeader(data) => data.stream = "good"
    /\ data.content.utf8
    /\ data.content.json
    /\ data.content.vrcode
    /\ data.content.rooms

\* The session of connection c is handling, or has handled last, a binary
\* frame that found a placeholder pending.
FilledPlaceholder(c) == msg[c].type = "Binary" /\ prev_pending[c] # None

\* C1: a binary frame received while a placeholder is pending clears the
\* placeholder, and once its decode has succeeded exactly one snapshot of
\* that frame is in the channel (or already with the consumer); at no time
\* is there more than one.
C1_OneSnapshotPerFilledPlaceholder ==
    \A c \in Conns :
        FilledPlaceholder(c) =>
            /\ pc[c] # "log_binary" => pending_binary_event[c] = None
            /\ Occurrences(Snapshot(c, nread[c]), Channelled) <= 1
            /\ (pc[c] \notin BinaryPcs /\ PipelineSucceeds(msg[c].data))
                  => Occurrences(Snapshot(c, nread[c]), Channelled) = 1

C1_Witness ==
    \E c \in Conns :
        /\ FilledPlaceholder(c)
        /\ PipelineSucceeds(msg[c].data)
        /\ pc[c] = "read"
        /\ pending_binary_event[c] = None
        /\ Occurrences(Snapshot(c, nread[c]), Channelled) = 1

\* The step is one of connection c's task that reads a frame or runs on
\* from a debug write of the frame's handling.
ReadStep(c) == nread'[c] # nread[c]
ResumeStep(c) == pc[c] \in LogPcs /\ lock_holder = c /\ lock_holder' # c
HandlerStep(c) == ReadStep(c) \/ ResumeStep(c)

\* C2: the step that ends the handling of a binary frame whose decode fails
\* (inflation, UTF-8, JSON or a missing required field) leaves the session
\* Open and waiting for its next frame, sends nothing to the channel, and
\* logs the error.
C2_FailedDecodeKeepsSession ==
    [][\A c \in Conns :
          ( /\ HandlerStep(c)
            /\ FilledPlaceholder(c)'
            /\ ~PipelineSucceeds(msg'[c].data)
            /\ pc'[c] \notin BinaryPcs )
          => /\ pc'[c] = "read"
             /\ SessionState(pc'[c]) = "Open"
             /\ chan' = chan
             /\ sent'[c] = sent[c]
             /\ errors'[c] = errors[c] + 1]_vars

\* A session that logged a decode error decoded a later frame.
C2_Witness ==
    \E c \in Conns :
        /\ errors[c] >= 1
        /\ FilledPlaceholder(c)
        /\ PipelineSucceeds(msg[c].data)
        /\ Snapshot(c, nread[c]) \in {Channelled[i] : i \in DOMAIN Channelled}

\* C3: a binary frame read while no placeholder is pending is ignored: no
\* stage of the pipeline runs (no further debug write, no error logged),
\* nothing of it reaches the channel, and the placeholder stays absent.
C3_UnannouncedBinaryIgnored ==
    [][\A c \in Conns :
          ( /\ HandlerStep(c)
            /\ msg'[c].type = "Binary"
            /\ prev_pending'[c] = None )
          => /\ pc'[c] \in {"log_binary", "read"}
             /\ pc[c] = "log_binary" => pc'[c] = "read"
             /\ pending_binary_event'[c] = None
             /\ chan' = chan
             /\ sent'[c] = sent[c]
             /\ errors'[c] = errors[c]
             /\ outbox'[c] = outbox[c]]_vars

\* A decodable payload arrived unannounced and was dropped.
C3_Witness ==
    \E c \in Conns :
        /\ msg[c].type = "Binary"
        /\ prev_pending[c] = None
        /\ PipelineSucceeds(msg[c].data)
        /\ pc[c] = "read"
        /\ Snapshot(c, nread[c]) \notin {Channelled[i] : i \in DOMAIN Channelled}

\* C4: for every connection, its snapshots stand in the channel and are
\* seen by the consumer loop (and by every configured output) in the order
\* in which the connection's binary frames were received.
C4_PerConnectionOrder ==
    \A c \in Conns :
        /\ Increasing(sent[c])
        /\ SeqsOf(c, Channelled) = sent[c]
        /\ Increasing(SeqsOf(c, received))
        /\ \A o \in Outputs :
              /\ IsPrefix(delivered[o], received)
              /\ Increasing(SeqsOf(c, delivered[o]))

\* The consumer saw a snapshot of another connection between two snapshots
\* of one connection.
C4_Witness ==
    \E i, j, k \in DOMAIN received :
        /\ i < j /\ j < k
        /\ received[i].conn = received[k].conn
        /\ received[j].conn # received[i].conn
        /\ delivered["ble"] = received

\* Every snapshot a run can put into the channel.
AllSnapshots == {Snapshot(c, n) : c \in Conns, n \in 1..MaxFairFrames}

Queued(x) == \E i \in DOMAIN chan : chan[i] = x

\* x was handed to every configured output.
HandedOut(x) ==
    /\ \E i \in DOMAIN received : received[i] = x
    /\ \A o \in Outputs :
          (IF o = "console" THEN console_enabled ELSE ble_enabled)
             => \E i \in DOMAIN delivered[o] : delivered[o][i] = x

\* C5 as stated: every snapshot sent to the channel is eventually received
\* by the consumer loop and handed to every configured output.
C5_EveryQueuedSnapshotHandedOut ==
    \A x \in AllSnapshots : Queued(x) ~> HandedOut(x)

\* C5, amended: the send never waits (the sending step is the step that
\* ends the decode, whatever the queue holds), the queue loses a message
\* only to rx.recv(), and every queued snapshot is eventually handed to
\* every configured output unless run() returns first.
C5_HandedOutUnlessShutdown ==
    /\ [][\A c \in Conns :
             sent'[c] # sent[c]
                => chan' = Append(chan, Snapshot(c, nread'[c]))]_vars
    /\ [][chan' # chan
             => \/ \E x \in AllSnapshots : chan' = Append(chan, x)
                \/ /\ chan # <<>>
                   /\ chan' = Tail(chan)
                   /\ received' = Append(received, Head(chan))]_vars
    /\ \A x \in AllSnapshots : Queued(x) ~> (HandedOut(x) \/ shutdown)

\* A snapshot went through the queue to both outputs while the process
\* kept running and another snapshot waits in the queue.
C5_Witness ==
    \E x \in AllSnapshots :
        /\ HandedOut(x)
        /\ console_enabled /\ ble_enabled
        /\ ~shutdown
        /\ chan # <<>>

\* Ways a session ends on a failure of its own transport.
TransportFailures == {"handshake_send_failed", "write_failed", "read_error"}

\* The state of session d that its client can observe or that decides what
\* it does next.
SessionOf(d) ==
    <<pc[d], pending_binary_event[d], sent[d], outbox[d], cause[d],
      errors[d], nread[d]>>

\* C6: a step in which a session ends on a handshake-send failure, a failed
\* reply write or a read error closes that session only: every other
\* session keeps its position, its pending placeholder and its snapshots,
\* the listener and the process go on, and the accept loop can still accept
\* the next connection.
C6_TransportFailureEndsOwnSessionOnly ==
    /\ [][\A c \in Conns :
             (pc[c] # "closed" /\ pc'[c] = "closed"
                 /\ cause'[c] \in TransportFailures)
                => /\ \A d \in Conns \ {c} : SessionOf(d)' = SessionOf(d)
                   /\ chan' = chan
                   /\ listener' = listener
                   /\ shutdown' = shutdown]_vars
    /\ [](\A d \in Conns :
             (/\ listener = "listening"
              /\ ~shutdown
              /\ pc[d] = "unaccepted"
              /\ \A e \in Conns : e < d => pc[e] # "unaccepted")
                => ENABLED Accept(d))

\* A session ended on a failed pong write while another session is open
\* with a placeholder pending and the next connection is not accepted yet.
C6_Witness ==
    \E c \in Conns, d \in Conns :
        /\ c # d
        /\ cause[c] = "write_failed"
        /\ SessionState(pc[d]) = "Open"
        /\ pending_binary_event[d] # None
        /\ ~shutdown

\* C7: whatever a session has sent starts with the connection response of
\* its own fresh sid, with an empty upgrade list and the two fixed timing
\* values; no later frame is a connection response; nothing is read before
\* it is sent; no two sessions share a sid.
C7_ConnectionResponseFirstAndOnce ==
    \A c \in Conns :
        /\ outbox[c] # <<>> =>
              /\ sids[c] # 0
              /\ outbox[c][1] =
                    [type |-> "Text", tag |-> "0", sid |-> sids[c],
                     upgrades |-> <<>>, pingInterval |-> 25000,
                     pingTimeout |-> 5000]
              /\ \A i \in 2..Len(outbox[c]) : outbox[c][i].tag # "0"
        /\ nread[c] > 0 => outbox[c] # <<>>
        /\ SessionState(pc[c]) = "Open" => Len(outbox[c]) >= 1
        /\ \A d \in Conns : (c # d /\ sids[c] # 0) => sids[c] # sids[d]

\* Two sessions are open, each has sent its connection response and nothing
\* else, and neither client has written a frame.
C7_Witness ==
    /\ \A c \in Conns :
          /\ Len(outbox[c]) = 1
          /\ nread[c] = 0
          /\ unread[c] = 0
          /\ pc[c] = "read"
    /\ \E c \in Conns, d \in Conns : sids[c] # sids[d]

\* The frame the session read last is a text frame beginning with "2".
LastIsPing(c) == msg[c].type = "Text" /\ starts_with(msg[c].text, <<"2">>)

\* C8: a text frame beginning with "2" takes the session to the pong write,
\* which appends exactly one "3" text frame (or fails, ending the session);
\* a "3" text frame is written at no other point, and a frame other than
\* the connection response, that "3" and the Pong answering a Ping control
\* frame is never written, so a text frame beginning with "40", "42" or
\* "451-" or a binary frame is followed by no outbound frame.
C8_OnePongPerPing ==
    [][\A c \in Conns :
          /\ pc[c] = "send_pong" => LastIsPing(c)
          /\ (pc[c] # pc'[c] /\ pc[c] = "send_pong") =>
                \/ /\ outbox'[c] = Append(outbox[c], PongText)
                   /\ pc'[c] = "read"
                \/ /\ outbox'[c] = outbox[c]
                   /\ pc'[c] = "closed"
                   /\ cause'[c] = "write_failed"
          /\ (nread'[c] # nread[c] /\ LastIsPing(c)') =>
                pc'[c] = (IF debug_enabled THEN "log_text" ELSE "send_pong")
          /\ (pc[c] = "log_text" /\ pc'[c] # pc[c] /\ LastIsPing(c)) =>
                pc'[c] = "send_pong"
          /\ outbox'[c] # outbox[c] =>
                \/ /\ pc[c] = "send_conn_response"
                   /\ outbox[c] = <<>>
                \/ /\ pc[c] = "send_pong"
                   /\ LastIsPing(c)
                   /\ outbox'[c] = Append(outbox[c], PongText)
                \/ /\ pc[c] = "send_ctl_pong"
                   /\ msg[c].type = "Ping"
                   /\ outbox'[c] = Append(outbox[c], PongCtl)]_vars

\* The session answered a ping and then took a namespace connect, an event,
\* a placeholder and a binary frame without writing anything more.
C8_Witness ==
    \E c \in Conns :
        /\ outbox[c] = <<ConnectionResponse(sids[c]), PongText>>
        /\ nread[c] >= 2
        /\ pc[c] = "read"
        /\ \/ msg[c].type = "Binary"
           \/ /\ msg[c].type = "Text"
              /\ \/ starts_with(msg[c].text, <<"4", "0">>)
                 \/ starts_with(msg[c].text, <<"4", "2">>)
                 \/ starts_with(msg[c].text, <<"4", "5", "1", "-">>)

\* C9: reading a Close frame ends the session at once, and a session that
\* has ended reads no frame, writes no frame, sends no snapshot and keeps
\* its state, whatever its client goes on to write.
C9_NothingAfterClose ==
    [][\A c \in Conns :
          /\ (nread'[c] # nread[c] /\ msg'[c].type = "Close") =>
                /\ pc'[c] = "closed"
                /\ cause'[c] = "close_frame"
                /\ outbox'[c] = outbox[c]
                /\ sent'[c] = sent[c]
                /\ chan' = chan
          /\ pc[c] = "closed" =>
                /\ SessionOf(c)' = SessionOf(c)
                /\ msg'[c] = msg[c]
                /\ unread'[c] >= unread[c]
                /\ \A i \in DOMAIN chan' :
                      chan'[i].conn = c => \E j \in DOMAIN chan : chan[j] = chan'[i]]_vars

\* The session ended on a Close frame with a placeholder pending, and a
\* frame its client wrote afterwards stays unread.
C9_Witness ==
    \E c \in Conns :
        /\ cause[c] = "close_frame"
        /\ pc[c] = "closed"
        /\ pending_binary_event[c] # None
        /\ unread[c] > 0

\* C10: the placeholder of a session changes only in the handling of a
\* "451-" text frame, which sets it to the text after the prefix, and of a
\* binary frame, which clears it; no other frame changes it.
C10_PlaceholderSetAndClearedOnlyByItsFrames ==
    [][\A c \in Conns :
          pending_binary_event'[c] # pending_binary_event[c] =>
             \/ /\ msg'[c].type = "Text"
                /\ starts_with(msg'[c].text, <<"4", "5", "1", "-">>)
                /\ pending_binary_event'[c] = Some(slice_from(msg'[c].text, 4))
             \/ /\ msg'[c].type = "Binary"
                /\ pending_binary_event[c] # None
                /\ pending_binary_event'[c] = None]_vars

\* A placeholder is still pending after the session took a frame of another
\* kind (and answered it, where it is a ping).
C10_Witness ==
    \E c \in Conns :
        /\ pending_binary_event[c] # None
        /\ prev_pending[c] # None
        /\ pc[c] = "read"
        /\ \/ msg[c].type \in {"Ping", "Pong"}
           \/ /\ msg[c].type = "Text"
              /\ ~starts_with(msg[c].text, <<"4", "5", "1", "-">>)

\* Positions of a session inside process_data, after decompression began.
DecodePcs == {"log_decompressed", "log_raw_json", "log_cleaned", "log_complete"}

\* The step is (also) a step of a task other than session c.
OtherTaskStep(c) ==
    \/ \E d \in Conns \ {c} : SessionOf(d)' # SessionOf(d)
    \/ received' # received
    \/ delivered' # delivered
    \/ cpc' # cpc

NextToAccept(c) ==
    /\ pc[c] = "unaccepted"
    /\ \A d \in Conns : d < c => pc[d] # "unaccepted"

\* C12: a failed accept changes nothing but the error log: the listener
\* stays listening and no session is touched; while the process runs, a
\* listening listener can accept the next connection however many accepts
\* have failed; and an accept starts exactly one session, at the WebSocket
\* handshake, with no placeholder, and touches no other session.
C12_AcceptErrorKeepsAccepting ==
    /\ [][accept_errors' # accept_errors
             => /\ listener = "listening"
                /\ listener' = "listening"
                /\ shutdown' = shutdown
                /\ \A c \in Conns : SessionOf(c)' = SessionOf(c)]_vars
    /\ [](\A c \in Conns :
             (listener = "listening" /\ ~shutdown /\ NextToAccept(c))
                => ENABLED Accept(c))
    /\ [](accept_errors > 0 /\ ~shutdown => listener = "listening")
    /\ [][\A c \in Conns :
             (pc[c] = "unaccepted" /\ pc'[c] # "unaccepted")
                => /\ pc'[c] = "ws_handshake"
                   /\ pending_binary_event'[c] = None
                   /\ sent'[c] = <<>>
                   /\ \A d \in Conns \ {c} : SessionOf(d)' = SessionOf(d)]_vars

\* Every accept error the run allows has happened, a session is open, and
\* the listener is ready to accept the next connection.
C12_Witness ==
    /\ accept_errors = MaxAcceptErrors
    /\ \E d \in Conns : SessionState(pc[d]) = "Open"
    /\ \E c \in Conns : NextToAccept(c) /\ ENABLED Accept(c)

\* Where the records of a document stand: (room, track, record), from 0.
RecordPlaces(vd) ==
    {p \in (0..MaxRooms) \X (0..MaxTracks) \X (0..MaxRecords) :
        /\ p[1] + 1 \in DOMAIN vd.rooms
        /\ p[2] + 1 \in DOMAIN vd.rooms[p[1] + 1].tracks
        /\ p[3] + 1 \in DOMAIN vd.rooms[p[1] + 1].tracks[p[2] + 1].records}

PlaceOf(e) == <<e.room_index, e.track_index, e.record_index>>

\* Order by room, then track, then record.
PlaceBefore(p, q) ==
    \/ p[1] < q[1]
    \/ p[1] = q[1] /\ p[2] < q[2]
    \/ p[1] = q[1] /\ p[2] = q[2] /\ p[3] < q[3]

TrackAt(vd, p) == vd.rooms[p[1] + 1].tracks[p[2] + 1]
RecordAt(vd, p) == TrackAt(vd, p).records[p[3] + 1]

\* Entries of the rooms before room r.
RECURSIVE EntriesBefore(_, _)
EntriesBefore(rooms, r) ==
    IF r = 1 THEN 0 ELSE EntriesBefore(rooms, r - 1) + Len(rooms[r - 1].tracks)

\* C13: the result has one room per room; all_tracks has one entry per
\* record, each carrying the place of a record of the document and the
\* value of that record, in the order room, track, record; and all_tracks
\* is the rooms' track lists laid end to end.
C13_OneEntryPerRecordInOrder ==
    stage = "returned" /\ vital_data # <<>> =>
        LET out == processed_data
            all == processed_data.all_tracks
        IN  /\ Len(out.rooms) = Len(vital_data.rooms)
            /\ Len(all) = Cardinality(RecordPlaces(vital_data))
            /\ \A i \in DOMAIN all :
                  /\ PlaceOf(all[i]) \in RecordPlaces(vital_data)
                  /\ LET v == RecordAt(vital_data, PlaceOf(all[i])).value IN
                     /\ v.kind = "Number" => all[i].raw_value = Some(v.num)
                     /\ v.kind = "String" => all[i].display_value = v.str
            /\ \A i \in DOMAIN all, j \in DOMAIN all :
                  i < j => PlaceBefore(PlaceOf(all[i]), PlaceOf(all[j]))
            /\ \A r \in DOMAIN out.rooms :
                  /\ out.rooms[r].room_index = r - 1
                  /\ Len(out.rooms[r].tracks) =
                        Cardinality({p \in RecordPlaces(vital_data) : p[1] = r - 1})
                  /\ \A i \in DOMAIN out.rooms[r].tracks :
                        out.rooms[r].tracks[i] =
                            all[EntriesBefore(out.rooms, r) + i]
            /\ Len(all) = EntriesBefore(out.rooms, Len(out.rooms) + 1)

\* Two rooms of two tracks of two records each were transformed.
C13_Witness ==
    /\ stage = "returned"
    /\ vital_data # <<>>
    /\ Len(processed_data.all_tracks) = 8
    /\ PlaceOf(processed_data.all_tracks[8]) = <<1, 1, 1>>

\* The entries of the result of transform.
Entries == IF stage = "returned" /\ vital_data # <<>>
           THEN {processed_data.all_tracks[i] : i \in DOMAIN processed_data.all_tracks}
           ELSE {}

\* C14: an entry has a raw value exactly when its kind is Number.
C14_RawValueIffNumber ==
    \A e \in Entries : (e.raw_value # None) <=> (e.track_type = "Number")

\* A waveform with samples was transformed: it has points and no raw value.
C14_Witness ==
    \E e \in Entries :
        /\ e.track_type = "Waveform"
        /\ e.waveform_points # None
        /\ e.raw_value = None

\* Numeric elements of the array an entry came from (0 if not an array).
NumericSamples(e) ==
    LET v == RecordAt(vital_data, PlaceOf(e)).value IN
    IF v.kind = "Array"
    THEN Cardinality({i \in DOMAIN v.items : v.items[i].kind = "Number"})
    ELSE 0

\* C15: statistics and points are both present or both absent; they are
\* present exactly for a Waveform entry that came from an array with a
\* numeric element; an array under "wav" without numeric element gives a
\* Waveform entry displayed "0 points" with neither.
C15_StatsAndPointsTogether ==
    \A e \in Entries :
        LET track == TrackAt(vital_data, PlaceOf(e))
            v == RecordAt(vital_data, PlaceOf(e)).value
        IN  /\ (e.waveform_stats = None) <=> (e.waveform_points = None)
            /\ (e.waveform_stats # None) <=>
                  (e.track_type = "Waveform" /\ NumericSamples(e) > 0)
            /\ (v.kind = "Array" /\ track.track_type = Some(Wav)
                  /\ NumericSamples(e) = 0)
                 => /\ e.track_type = "Waveform"
                    /\ e.display_value =
                          <<"0", " ", "p", "o", "i", "n", "t", "s">>
                    /\ e.waveform_stats = None
                    /\ e.waveform_points = None

\* A "wav" array of two elements, neither numeric, was transformed.
C15_Witness ==
    \E e \in Entries :
        LET v == RecordAt(vital_data, PlaceOf(e)).value IN
        /\ v.kind = "Array"
        /\ Len(v.items) = 2
        /\ NumericSamples(e) = 0
        /\ e.track_type = "Waveform"

\* C17 as stated: whatever the text and the compression level, decompress
\* gives the text back from its zlib stream, bare or behind the 0x04
\* indicator.
C17_RoundTripAtEveryLevel ==
    stage = "returned" =>
        \A t \in CompressTexts, l \in Levels :
            /\ input_data = zlib_compress(t, l) => decompressed = Ok(t)
            /\ input_data = Indicated(zlib_compress(t, l)) => decompressed = Ok(t)

\* The buffer begins with 0x04 0x78, or with 0x78 and one of 0x01, 0x9C,
\* 0xDA.
RecognisedHeader(b) ==
    /\ Len(b) >= 2
    /\ \/ b[1] = 4 /\ b[2] = 120
       \/ b[1] = 120 /\ (b[2] = 1 \/ b[2] = 156 \/ b[2] = 218)

\* C18: a buffer that is empty or has no recognised header comes back
\* unchanged and without error.
C18_UnrecognisedBufferUnchanged ==
    (stage = "returned" /\ ~RecognisedHeader(input_data))
        => decompressed = Ok(input_data)

\* The single byte 0x78 was handed to decompress.
C18_Witness ==
    /\ stage = "returned"
    /\ input_data = <<120>>

\* The zlib stream inside the buffer.
StreamOf(b) == IF b[1] = 4 THEN Tail(b) ELSE b

\* Streams that inflate.
SoundStreams ==
    {<<ZlibCMF, ZlibFLG(f)>> \o stored_block(t) \o adler32(t) :
        t \in CompressTexts, f \in 0..3}

ValueOf(text) == from_str_value(text).val
ValidJson(text) == from_str_value(text).ok

\* vrcode or rooms is not there.
TopLevelAbsent(v) ==
    v.kind # "Object" \/ field(v, F_vrcode) = None \/ field(v, F_rooms) = None

Under(vs, name) ==
    UNION {LET o == field(v, name) IN
           IF o # None /\ o[2].kind = "Array"
           THEN {o[2].items[i] : i \in 1..Len(o[2].items)} ELSE {} : v \in vs}
RoomsOf(v) == Under({v}, F_rooms)
TracksOf(v) == Under(RoomsOf(v), F_trks)
RecordsOf(v) == Under(TracksOf(v), F_recs)
EventsOf(v) == Under(RoomsOf(v), F_evts)

\* The field is there and holds a value of none of the kinds.
WrongKind(v, name, kinds) ==
    field(v, name) # None /\ field(v, name)[2].kind \notin kinds
NotWhole(v, name) ==
    field(v, name) # None /\ field(v, name)[2].kind = "Number"
        /\ field(v, name)[2].num % Milli # 0

\* Some field that is there holds a value of a JSON type its declaration
\* does not take.
Mistyped(v) ==
    \/ WrongKind(v, F_vrcode, {"String"})
    \/ WrongKind(v, F_rooms, {"Array"})
    \/ \E room \in RoomsOf(v) :
        \/ room.kind # "Object"
        \/ WrongKind(room, F_seqid, {"Number", "Null"})
        \/ NotWhole(room, F_seqid)
        \/ WrongKind(room, F_roomname, {"String", "Null"})
        \/ WrongKind(room, F_trks, {"Array"})
        \/ WrongKind(room, F_evts, {"Array"})
    \/ \E event \in EventsOf(v) :
        \/ event.kind # "Object"
        \/ WrongKind(event, F_dt, {"Number", "Null"})
        \/ WrongKind(event, F_msg, {"String", "Null"})
    \/ \E track \in TracksOf(v) :
        \/ track.kind # "Object"
        \/ WrongKind(track, F_id, {"String", "Number", "Null"})
        \/ NotWhole(track, F_id)
        \/ \E name \in {F_name, F_type, F_unit, F_montype, F_dname} :
              WrongKind(track, name, {"String", "Null"})
        \/ WrongKind(track, F_srate, {"Number", "Null"})
        \/ WrongKind(track, F_recs, {"Array"})
    \/ \E record \in RecordsOf(v) :
        \/ record.kind # "Object"
        \/ WrongKind(record, F_dt, {"Number", "Null"})
        \/ WrongKind(record, F_time, {"Number", "Null"})

ValAbsent(v) == \E record \in RecordsOf(v) : field(record, F_val) = None

C20_RepairKeepsValidJson ==
    (stage # "called" /\ ValidJson(json_str))
        => /\ ValidJson(cleaned_json)
           /\ ValueOf(cleaned_json) = ValueOf(json_str)

\* The object with the values vs under hr, then w.
KeyedValues(vs) ==
    JObject([i \in 1..Len(vs) |-> Member(IF i = 1 THEN F_hr ELSE F_w, vs[i])])
Meant(ns) == [i \in 1..Len(ns) |-> JNumber(ns[i].num)]

\* C21: numbers written with a decimal comma, as the values of an object or
\* in pairs as the elements of an array, parse after repair as the numbers
\* meant: as many, in the same order, with their sign.
C21_DecimalCommaRepaired ==
    stage # "called" =>
        \A ns \in CommaLists, sep \in Separators :
            /\ json_str = comma_array_text(ns, sep)
                  => /\ ValidJson(cleaned_json)
                     /\ ValueOf(cleaned_json)
                           = JObject(<<Member(F_w, JArray(Meant(ns)))>>)
            /\ \A colon \in Colons :
                  json_str = comma_object_text(ns, colon, sep)
                      => /\ ValidJson(cleaned_json)
                         /\ ValueOf(cleaned_json) = KeyedValues(Meant(ns))

\* An array of two such numbers, the second negative, was repaired.
C21_Witness ==
    /\ stage # "called"
    /\ \E ns \in CommaLists, sep \in Separators :
          /\ Len(ns) = 2
          /\ ns[2].num < 0
          /\ json_str = comma_array_text(ns, sep)

\* null where a token stands, the number where 7 stands.
Nulled(ts) == [i \in 1..Len(ts) |-> IF ts[i] = Seven THEN JNumber(7 * Milli) ELSE JNull]

\* No nan, inf or infinity of any case stands in the text as a word.
NoToken(text) ==
    \A i \in 1..Len(text) :
        \A w \in {<<"n", "a", "n">>, <<"i", "n", "f">>,
                  <<"i", "n", "f", "i", "n", "i", "t", "y">>} :
            ~(/\ literal_at(text, i, w)
              /\ i = 1 \/ text[i - 1] \notin WordChars
              /\ i + Len(w) > Len(text) \/ text[i + Len(w)] \notin WordChars)

\* C22: a document whose only defect is nan, inf or infinity tokens, of any
\* case and sign, where values stand is valid JSON after repair, holds null
\* where they stood and holds none of them.
C22_TokensBecomeNull ==
    stage # "called" =>
        \A ts \in TokenLists :
            /\ json_str = token_array_text(ts, <<",", " ">>)
                  => /\ ValidJson(cleaned_json)
                     /\ ValueOf(cleaned_json)
                           = JObject(<<Member(F_w, JArray(Nulled(ts)))>>)
                     /\ NoToken(cleaned_json)
            /\ \A colon \in Colons, sep \in Separators :
                  json_str = token_object_text(ts, colon, sep)
                      => /\ ValidJson(cleaned_json)
                         /\ ValueOf(cleaned_json) = KeyedValues(Nulled(ts))
                         /\ NoToken(cleaned_json)

\* An object holding -Infinity and another token was repaired.
C22_Witness ==
    /\ stage # "called"
    /\ \E ts \in TokenLists, colon \in Colons, sep \in Separators :
          /\ Len(ts) = 2
          /\ ts[1] = <<"-", "I", "n", "f", "i", "n", "i", "t", "y">>
          /\ ts[2] # Seven
          /\ json_str = token_object_text(ts, colon, sep)

\* C23 as stated: whoever holds the debug-log lock holds it for a single
\* write.
C23_OneWritePerGuard ==
    lock_holder # NoTask => guard_writes(lock_holder) = 1

\* C23: a session holds the lock only at a debug write, for that one write,
\* and has released it when it moves on, also to the next write of the same
\* message; the consumer loop holds it only inside write_debug_data, for
\* the dump of one snapshot.
C23_GuardPerSessionWriteAndPerDump ==
    [][/\ \A c \in Conns :
            /\ lock_holder = c
                   => pc[c] \in LogPcs /\ guard_writes(c) = 1
            /\ (lock_holder = c /\ pc'[c] # pc[c]) => lock_holder' = NoTask
       /\ lock_holder = ConsumerTask => cpc = "log_data"
       /\ (lock_holder = ConsumerTask /\ cpc' # cpc) => lock_holder' = NoTask]_vars

\* A session has written the decompressed record of a frame and waits to
\* write the next one, while another task holds the lock.
C23_Witness ==
    \E c \in Conns :
        /\ pc[c] = "log_raw_json"
        /\ lock_holder \notin {c, NoTask}

\* C24: the kind of an entry follows the JSON type of the record value: a
\* number is Number and a string is String under every hint, an array is
\* Waveform exactly under the hint "wav", and everything else is Other.
C24_KindFollowsJsonType ==
    \A e \in Entries :
        LET hint == TrackAt(vital_data, PlaceOf(e)).track_type
            v == RecordAt(vital_data, PlaceOf(e)).value
        IN  /\ v.kind = "Number" => e.track_type = "Number"
            /\ v.kind = "String" => e.track_type = "String"
            /\ v.kind = "Array" =>
                  e.track_type = (IF hint = Some(Wav) THEN "Waveform" ELSE "Other")
            /\ v.kind \in {"Object", "Bool", "Null"} => e.track_type = "Other"

\* An array of two elements under the hint "WAV" was transformed.
C24_Witness ==
    \E e \in Entries :
        LET hint == TrackAt(vital_data, PlaceOf(e)).track_type
            v == RecordAt(vital_data, PlaceOf(e)).value
        IN  /\ v.kind = "Array" /\ hint = Some(<<"W", "A", "V">>) /\ Len(v.items) = 2
               /\ e.track_type = "Other"

\* The numeric elements of an array, in their order, in thousandths.
NumbersOf(items) ==
    LET nums == SelectSeq(items, LAMBDA v : v.kind = "Number")
    IN  [i \in DOMAIN nums |-> nums[i].num]

\* The waveform entries whose array holds a numeric element, each with the
\* numbers of its array.
Waveforms ==
    {<<e, NumbersOf(RecordAt(vital_data, PlaceOf(e)).value.items)>> :
        e \in {w \in Entries :
                 /\ RecordAt(vital_data, PlaceOf(w)).value.kind = "Array"
                 /\ TrackAt(vital_data, PlaceOf(w)).track_type = Some(Wav)
                 /\ NumericSamples(w) > 0}}

\* Points, count, min and max of a waveform entry are those of the numbers.
PointsAndExtremes(e, numbers) ==
    /\ e.waveform_points = Some(numbers)
    /\ e.waveform_stats # None
    /\ e.waveform_stats[2].count = Len(numbers)
    /\ \E i \in DOMAIN numbers : numbers[i] = e.waveform_stats[2].min
    /\ \E i \in DOMAIN numbers : numbers[i] = e.waveform_stats[2].max
    /\ \A i \in DOMAIN numbers :
          /\ e.waveform_stats[2].min <= numbers[i]
          /\ numbers[i] <= e.waveform_stats[2].max

\* |avg - mean| <= 2^-40 for the exact mean of the numbers, compared after
\* multiplying both by a thousand times the count.
NearMean(avg, numbers) ==
    LET k == Milli * Len(numbers)
        total == iter_sum(numbers)
        d == exact_add(F64(avg.neg, bn_mul(avg.man, k), avg.exp),
                       F64(total > 0, bn(IF total < 0 THEN -total ELSE total), 0))
    IN  ~f64_lt(F64(FALSE, bn(k), -40), F64(FALSE, d.man, d.exp))

\* C25 as stated: the statistics of a waveform are those of its numeric
\* elements, and the average lies between the minimum and the maximum.
C25_AvgBetweenMinAndMax ==
    \A w \in Waveforms :
        /\ PointsAndExtremes(w[1], w[2])
        /\ ~f64_lt(w[1].waveform_stats[2].avg, f64_of(w[1].waveform_stats[2].min))
        /\ ~f64_lt(f64_of(w[1].waveform_stats[2].max), w[1].waveform_stats[2].avg)

\* C25: for a "wav" array with a numeric element the points are its numeric
\* elements in their order, count is their number, min and max are the least
\* and the greatest of them, and avg is within 2^-40 of their mean.
C25_StatsOfNumericElements ==
    \A w \in Waveforms :
        /\ PointsAndExtremes(w[1], w[2])
        /\ NearMean(w[1].waveform_stats[2].avg, w[2])

\* A waveform of three elements, a string between two different numbers,
\* was transformed.
C25_Witness ==
    \E w \in Waveforms :
        /\ Len(RecordAt(vital_data, PlaceOf(w[1])).value.items) = 3
        /\ Len(w[2]) = 2
        /\ w[2][1] > w[2][2]
        /\ w[1].waveform_stats[2].count = 2

KindsRead(c, kind) == Occurrences(kind, read_kinds[c])

\* C27: a session never has more than one placeholder pending, so its
\* snapshots, a pending placeholder counted with them, are at most as many
\* as the '451-' frames it read, and at most as many as the binary frames
\* it read; after two '451-' frames and two binary frames only the first
\* binary frame has been decoded.
C27_AtMostOnePendingPlaceholder ==
    \A c \in Conns :
        /\ Len(sent[c]) + (IF pending_binary_event[c] # None THEN 1 ELSE 0)
              <= KindsRead(c, "event")
        /\ Len(sent[c]) <= KindsRead(c, "binary")
        /\ \A n \in 1..Len(read_kinds[c]) :
              n \in {sent[c][i] : i \in DOMAIN sent[c]}
                 => /\ read_kinds[c][n] = "binary"
                    /\ \E k \in 1..(n - 1) :
                          /\ read_kinds[c][k] = "event"
                          /\ \A j \in (k + 1)..(n - 1) :
                                read_kinds[c][j] # "binary"
        /\ \A n \in 4..Len(read_kinds[c]) :
              (/\ read_kinds[c][n - 3] = "event"
               /\ read_kinds[c][n - 2] = "event"
               /\ read_kinds[c][n - 1] = "binary"
               /\ read_kinds[c][n] = "binary")
                 => \A i \in DOMAIN sent[c] : sent[c][i] # n

\* A session read two '451-' frames and then two binary frames, and has
\* sent the snapshot of the first of them only.
C27_Witness ==
    \E c \in Conns :
        /\ read_kinds[c] = <<"event", "event", "binary", "binary">>
        /\ sent[c] = <<3>>
        /\ pc[c] = "read"

\* C28: a decode that fails has consumed the placeholder (none is pending
\* once the failure is logged), and a binary frame that follows another
\* binary frame without a '451-' frame in between is not decoded: it gives
\* neither a snapshot nor an error.
C28_FailedDecodeConsumesPlaceholder ==
    /\ [][\A c \in Conns :
             errors'[c] # errors[c]
                => /\ errors'[c] = errors[c] + 1
                   /\ msg'[c].type = "Binary"
                   /\ prev_pending'[c] # None
                   /\ pending_binary_event'[c] = None
                   /\ sent'[c] = sent[c]]_vars
    /\ [][\A c \in Conns :
             (/\ nread'[c] # nread[c]
              /\ msg'[c].type = "Binary"
              /\ msg[c].type = "Binary")
                => /\ prev_pending'[c] = None
                   /\ pc'[c] \in {"read", "log_binary"}
                   /\ sent'[c] = sent[c]
                   /\ errors'[c] = errors[c]]_vars
    /\ [][\A c \in Conns :
             (pc[c] = "log_binary" /\ pc'[c] # pc[c] /\ prev_pending[c] = None)
                => /\ pc'[c] = "read"
                   /\ sent'[c] = sent[c]
                   /\ errors'[c] = errors[c]]_vars

\* After a '451-' frame a corrupt binary frame failed to decode, and the
\* well-formed binary frame behind it was read and ignored.
C28_Witness ==
    \E c \in Conns :
        /\ read_kinds[c] = <<"event", "binary", "binary">>
        /\ msg[c] = BinaryMsg(P_sio_ok)
        /\ errors[c] = 1
        /\ sent[c] = <<>>
        /\ pending_binary_event[c] = None
        /\ pc[c] = "read"

\* C29: the placeholder belongs to one connection: a step of one session
\* leaves the placeholder of every other session as it is, and a session
\* that has read no '451-' frame of its own has no placeholder pending and
\* has decoded nothing, whatever the other sessions have read.
C29_PlaceholderPrivate ==
    /\ [][\A c \in Conns :
             (nread'[c] # nread[c] \/ pc'[c] # pc[c])
                => \A d \in Conns \ {c} :
                      pending_binary_event'[d] = pending_binary_event[d]]_vars
    /\ [](\A c \in Conns :
             KindsRead(c, "event") = 0
                => /\ pending_binary_event[c] = None
                   /\ sent[c] = <<>>
                   /\ errors[c] = 0)

\* One session holds a pending placeholder while another session, which
\* read no '451-' frame, has read a well-formed binary frame and ignored it.
C29_Witness ==
    \E c, d \in Conns :
        /\ c # d
        /\ pending_binary_event[c] # None
        /\ read_kinds[c] = <<"event">>
        /\ read_kinds[d] = <<"binary">>
        /\ msg[d] = BinaryMsg(P_sio_ok)
        /\ pc[d] = "read"
        /\ sent[d] = <<>>

\* A task waits for the debug-file lock.
WaitsForLock(task) ==
    /\ lock_holder # task
    /\ IF task = ConsumerTask THEN cpc = "log_data" ELSE pc[task] \in LogPcs

\* C30: the holder of the debug-file lock is inside a debug write, not at a
\* network read, a network write or the channel receive, and no such step
\* is taken by the holder; the holder's release is enabled whatever the
\* other tasks do; and every task that waits for the lock gets it, unless
\* the process is shut down first.
C30_LockNeverHeldAcrossAwait ==
    /\ [](\A c \in Conns : lock_holder = c => pc[c] \in LogPcs)
    /\ [](lock_holder = ConsumerTask => cpc = "log_data")
    /\ [][/\ \A c \in Conns :
               (nread'[c] # nread[c] \/ outbox'[c] # outbox[c])
                  => lock_holder # c /\ lock_holder' # c
          /\ (chan' # chan /\ received' # received)
                => lock_holder # ConsumerTask /\ lock_holder' # ConsumerTask
          /\ \A o \in Outputs :
                delivered'[o] # delivered[o] => lock_holder' # ConsumerTask]_vars
    /\ [](~shutdown =>
            /\ \A c \in Conns : lock_holder = c => ENABLED DebugWriteRelease(c)
            /\ lock_holder = ConsumerTask => ENABLED ConsumerWriteRelease)
    /\ \A task \in Conns \cup {ConsumerTask} :
          WaitsForLock(task) ~> (lock_holder = task \/ shutdown)

\* A session holds the lock while the other session and the consumer loop
\* both wait for it.
C30_Witness ==
    \E c, d \in Conns :
        /\ c # d
        /\ lock_holder = c
        /\ WaitsForLock(d)
        /\ WaitsForLock(ConsumerTask)
        /\ ~shutdown

TypeOK ==
    /\ \A c \in Conns : unread[c] <= MaxUnread
    /\ lock_holder \in Conns \cup {ConsumerTask, NoTask}

====
